---- MODULE Spec2Model ----
(***************************************************************************)
(* A model of the rule-enforcement engine of "Escape the Castle"           *)
(* (src/escape_castle.py) driven by the web handler of src/ui_server.py.   *)
(*                                                                         *)
(* The engine is validate_and_apply(state, llm, player_action_text).  It   *)
(* is modelled as the operator validate_and_apply, the composition of one  *)
(* operator per block of the function, in the order of the source.  Each   *)
(* block maps a context record (the function's locals and the GameState)   *)
(* to the context after the block.  Narration texts are not modelled.      *)
(*                                                                         *)
(* Spec runs the engine turn by turn over the whole castle.  SpecSession   *)
(* runs a session request by request: the terminal loop main or the web    *)
(* handler act, with the calls of OllamaChat.chat_json and their failures. *)
(* SpecQuiet plays no-op proposals until the session ends.  SpecCoerce     *)
(* feeds the session with any JSON value the service may answer, through   *)
(* parse_llm_json and coerce_llm_result.  SpecIntro steps through the      *)
(* welcome and the room introductions of both drivers.                     *)
(*                                                                         *)
(* A player text is one of the strings of TextFacts; TextFacts[t] is the   *)
(* set of the source's patterns that match t, computed with the source's   *)
(* own regular expressions.  The patterns, by name (escape_castle.py):     *)
(*   MC_CRAWL_BARE 687, MC_GO_BACK 691, MC_VERB_HOLE 695, MC_TO_CELLAR     *)
(*   697, MC_CELLAR_SUB 699, MC_CRAWL_DOWN 703, MC_CRAWL_BACK 707,         *)
(*   HOLE_WORD 707/725, MK_DOOR_SUB 715, MK_OPEN_IT 715, MK_OPEN_DOOR 720, *)
(*   MK_UP_BACK 724, MK_TO_CELL_PHRASE 726, CELL_WORD 615, MK_GO_TO_CELL   *)
(*   730, MH_OPEN_IT 736, MH_OPEN_BARE 736, MH_OPEN_DOOR 740, MH_BACK 743, *)
(*   MH_CELLAR 743, MY_EXIT 749, MY_LADDER_TOWER 759, MY_CLIMB_LADDER_UP   *)
(*   770, MY_CLIMB_LADDER_DOWN 772, TORCH_SUB 794, LOCAL_PROBE 1164,       *)
(*   MOVE_DEEPER_RE 964, LOOK_RE 970, ALL_THREE_RE 982, TWO_RE 983,        *)
(*   STRAW_RE 614, STONE_ACT_RE 626-633, COAL_WORD 1182, IGNITE_WORD 1183, *)
(*   JUMP_WORD 1408, HALL_ATTACK 596/1237; every other name X_RE is the    *)
(*   module-level pattern _X_RE (lines 605-677, 789-790).                  *)
(***************************************************************************)
EXTENDS Integers, FiniteSets, Sequences, TLC

\* ---- player texts and the patterns that match them ----
TextFacts ==
    "look around" :> {"LOOK_RE"} @@
    "wait quietly" :> {} @@
    "look under the straw bed" :> {"LOOK_RE", "STRAW_RE"} @@
    "lift the loose stone" :> {"SHOOT_RE", "STONE_ACT_RE"} @@
    "search the straw and lift the stone" :> {"LOCAL_PROBE", "LOOK_RE", "STONE_ACT_RE", "STRAW_RE"} @@
    "search the straw, lift the stone and crawl into the hole" :> {"HOLE_WORD", "LOCAL_PROBE", "LOOK_RE", "MC_VERB_HOLE", "MOVE_DEEPER_RE", "STONE_ACT_RE", "STRAW_RE"} @@
    "crawl into the hole" :> {"HOLE_WORD", "MC_VERB_HOLE", "MOVE_DEEPER_RE"} @@
    "throw the torch into the hole" :> {"DROP_RE", "HOLE_WORD", "TORCH_SUB"} @@
    "light the torch" :> {"IGNITE_WORD", "LIGHT_TORCH_RE", "TORCH_SUB"} @@
    "pick up the torch" :> {"LOCAL_PROBE", "MK_UP_BACK", "PICK_RE", "TORCH_SUB"} @@
    "drop the torch" :> {"DROP_RE", "TORCH_SUB"} @@
    "extinguish the torch" :> {"EXTINGUISH_RE", "TORCH_SUB"} @@
    "walk deeper" :> {"MOVE_DEEPER_RE"} @@
    "go back up through the hole" :> {"HOLE_WORD", "LADDER_UP_RE", "MC_GO_BACK", "MC_VERB_HOLE", "MH_BACK", "MK_UP_BACK", "MOVE_DEEPER_RE"} @@
    "return to the cell" :> {"CELL_WORD", "MH_BACK", "MK_GO_TO_CELL", "MK_TO_CELL_PHRASE", "MK_UP_BACK"} @@
    "open the door" :> {"MH_OPEN_DOOR", "MK_DOOR_SUB", "MK_OPEN_DOOR"} @@
    "go back to the cellar" :> {"MC_CELLAR_SUB", "MC_GO_BACK", "MC_TO_CELLAR", "MH_BACK", "MH_CELLAR", "MK_GO_TO_CELL", "MK_UP_BACK", "MOVE_DEEPER_RE"} @@
    "drop the torch and go back to the cellar" :> {"DROP_RE", "MC_CELLAR_SUB", "MC_GO_BACK", "MC_TO_CELLAR", "MH_BACK", "MH_CELLAR", "MK_GO_TO_CELL", "MK_UP_BACK", "MOVE_DEEPER_RE", "TORCH_SUB"} @@
    "take the keys" :> {"KEYS_RE", "PICK_RE"} @@
    "drop the keys" :> {"DROP_RE", "KEYS_RE"} @@
    "unlock the door with the keys" :> {"KEYS_RE", "MH_OPEN_DOOR", "MK_DOOR_SUB", "MK_OPEN_DOOR", "UNLOCK_RE"} @@
    "attack the knight" :> {"HALL_ATTACK"} @@
    "climb up the ladder" :> {"LADDER_UP_RE", "MK_UP_BACK", "MY_LADDER_TOWER"} @@
    "climb down the ladder" :> {"LADDER_DOWN_RE", "MK_UP_BACK", "MY_LADDER_TOWER"} @@
    "pull the lever" :> {"LEVER_RE"} @@
    "pick up the crossbow" :> {"CROSSBOW_RE", "LOCAL_PROBE", "MK_UP_BACK", "PICK_RE"} @@
    "drop the crossbow" :> {"CROSSBOW_RE", "DROP_RE"} @@
    "shoot the guard" :> {"SHOOT_RE"} @@
    "shoot two guards" :> {"SHOOT_RE", "TWO_RE"} @@
    "shoot all three guards" :> {"ALL_THREE_RE", "SHOOT_RE"} @@
    "cross the bridge" :> {"CROSS_GATE_RE"} @@
    "jump into the moat" :> {"JUMP_MOAT_RE", "JUMP_WORD"} @@
    "swim across" :> {"SWIM_RE"} @@
    "leave the castle" :> {"DROP_RE", "MY_EXIT"}


Texts == DOMAIN TextFacts

\* pattern `p` (a name of the table above) matches player text `t`
Has(t, p) == p \in TextFacts[t]

None == "none"

\* ---- static data ----

Rooms == {"cell_01", "coal_01", "hall_01", "courtyard_01"}

ROOM_GRAPH ==
    [cell_01      |-> {"coal_01"},
     coal_01      |-> {"cell_01", "hall_01"},
     hall_01      |-> {"coal_01", "courtyard_01"},
     courtyard_01 |-> {}]

ALLOWED_HALL_FLAGS == {"knight_knocked_out", "courtyard_door_unlocked"}
ALLOWED_CELL_FLAGS == {"found_loose_stone", "stone_moved", "entered_hole", "has_torch_stick", "torch_lit"}
ALLOWED_COAL_FLAGS == {"has_torch_stick", "torch_lit"}
ALLOWED_COURTYARD_FLAGS == {"at_tower_top", "gate_lowered", "guards_present"}

ALLOWED_EVENTS ==
    {"straw_rummaged", "stone_lifted",
     "enter_coal_cellar", "return_to_cell",
     "dark_stumble",
     "pickup_stick", "pickup_torch", "drop_torch", "light_torch", "extinguish_torch",
     "open_hall_door",
     "return_to_coal",
     "pickup_keys", "drop_keys",
     "unlock_courtyard_door",
     "guard_punishes",
     "knight_notice", "combat_knock_guard",
     "climb_ladder_up", "climb_ladder_down",
     "pull_lever", "guards_arrive",
     "pickup_crossbow", "drop_crossbow",
     "shoot_guard",
     "cross_gate_bridge",
     "jump_into_moat", "swim_across"}

\* ---- GameState after construction ----

GameState ==
    [current_room |-> "cell_01",
     hp |-> 100,
     items |-> [torch    |-> [location |-> "coal_01", lit |-> FALSE],
                keys     |-> [location |-> "hall_01"],
                crossbow |-> [location |-> "courtyard_tower_top"]],
     inventory |-> << >>,
     \* the keys has_torch_stick and torch_lit are absent from flags_cell until the
     \* first sync_flags_with_items writes them: torch_keys says they are present
     \* (an absent key reads as False, dict.get)
     flags_cell |-> [found_loose_stone |-> FALSE, stone_moved |-> FALSE, entered_hole |-> FALSE,
                     torch_keys |-> FALSE, has_torch_stick |-> FALSE, torch_lit |-> FALSE],
     flags_coal |-> [has_torch_stick |-> FALSE, torch_lit |-> FALSE, coal_intro_shown |-> FALSE],
     flags_hall |-> [knight_knocked_out |-> FALSE, courtyard_door_unlocked |-> FALSE,
                     hall_intro_shown |-> FALSE],
     flags_courtyard |-> [at_tower_top |-> FALSE, gate_lowered |-> FALSE, guards_present |-> FALSE,
                          guards_remaining |-> 0, courtyard_intro_shown |-> FALSE, in_moat |-> FALSE]]

\* ---- Intent Normalizer ----

infer_move_event(current_room, t) ==
    CASE current_room = "cell_01" ->
           IF \/ Has(t, "MC_CRAWL_BARE")
              \/ Has(t, "MC_GO_BACK")
              \/ Has(t, "MC_VERB_HOLE")
              \/ Has(t, "MC_TO_CELLAR")
              \/ Has(t, "MC_CELLAR_SUB")
              \/ Has(t, "MC_CRAWL_DOWN")
              \/ (Has(t, "MC_CRAWL_BACK") /\ Has(t, "HOLE_WORD"))
           THEN "enter_coal_cellar" ELSE None
      [] current_room = "coal_01" ->
           LET up_back == Has(t, "MK_UP_BACK")
               via_hole == Has(t, "HOLE_WORD")
               to_cell_phrase == Has(t, "MK_TO_CELL_PHRASE")
               to_cell_generic == Has(t, "CELL_WORD")
           IN  IF Has(t, "MK_DOOR_SUB") /\ Has(t, "MK_OPEN_IT") THEN "open_hall_door"
               ELSE IF Has(t, "MK_OPEN_DOOR") THEN "open_hall_door"
               ELSE IF (up_back /\ via_hole) \/ (up_back /\ (to_cell_phrase \/ to_cell_generic))
                    THEN "return_to_cell"
               ELSE IF Has(t, "MK_GO_TO_CELL") THEN "return_to_cell"
               ELSE None
      [] current_room = "hall_01" ->
           IF Has(t, "MH_OPEN_IT") \/ Has(t, "MH_OPEN_BARE") THEN "unlock_courtyard_door"
           ELSE IF Has(t, "MH_OPEN_DOOR") THEN "unlock_courtyard_door"
           ELSE IF Has(t, "MH_BACK") /\ Has(t, "MH_CELLAR") THEN "return_to_coal"
           ELSE None
      [] current_room = "courtyard_01" ->
           IF Has(t, "MY_EXIT") THEN "cross_gate_bridge"
           ELSE IF Has(t, "JUMP_TO_GROUND_RE") THEN "climb_ladder_down"
           ELSE IF Has(t, "JUMP_MOAT_RE") THEN "jump_into_moat"
           ELSE IF Has(t, "SWIM_RE") \/ (Has(t, "OTHER_SIDE_SWIM_RE") /\ ~Has(t, "MY_LADDER_TOWER"))
                THEN "swim_across"
           ELSE IF Has(t, "JUMP_GENERIC_RE") THEN "jump_into_moat"
           ELSE IF Has(t, "TOWER_RE") THEN "climb_ladder_up"
           ELSE IF Has(t, "LADDER_UP_RE") \/ Has(t, "MY_CLIMB_LADDER_UP") THEN "climb_ladder_up"
           ELSE IF Has(t, "LADDER_DOWN_RE") \/ Has(t, "MY_CLIMB_LADDER_DOWN") THEN "climb_ladder_down"
           ELSE IF Has(t, "LEVER_RE") THEN "pull_lever"
           ELSE IF Has(t, "SHOOT_RE") THEN "shoot_guard"
           ELSE IF Has(t, "CROSS_GATE_RE") THEN "cross_gate_bridge"
           ELSE None
      [] OTHER -> None

infer_item_event(t) ==
    LET mentions_torch == Has(t, "TORCH_SUB")
        mentions_keys == Has(t, "KEYS_RE")
        mentions_crossbow == Has(t, "CROSSBOW_RE")
    IN  IF mentions_torch /\ Has(t, "EXTINGUISH_RE") THEN "extinguish_torch"
        ELSE IF mentions_torch /\ Has(t, "DROP_RE") THEN "drop_torch"
        ELSE IF mentions_torch /\ Has(t, "PICK_RE") THEN "pickup_torch"
        ELSE IF mentions_torch /\ Has(t, "LIGHT_TORCH_RE") THEN "light_torch"
        ELSE IF mentions_keys /\ Has(t, "DROP_RE") THEN "drop_keys"
        ELSE IF mentions_keys /\ Has(t, "PICK_RE") THEN "pickup_keys"
        ELSE IF Has(t, "UNLOCK_RE") /\ mentions_keys THEN "unlock_courtyard_door"
        ELSE IF mentions_crossbow /\ Has(t, "DROP_RE") THEN "drop_crossbow"
        ELSE IF mentions_crossbow /\ Has(t, "PICK_RE") THEN "pickup_crossbow"
        ELSE None

\* ---- helpers on GameState ----

inventory_items_from_items(state) ==
    IF state.items.torch.location = "player"
    THEN << IF state.items.torch.lit THEN "lit torch" ELSE "wooden torch" >>
    ELSE IF state.items.keys.location = "player" THEN << "keys" >>
    ELSE IF state.items.crossbow.location = "player" THEN << "crossbow" >>
    ELSE << >>

torch_light_present_here(state) ==
    IF ~state.items.torch.lit THEN FALSE
    ELSE state.items.torch.location = "player" \/ state.items.torch.location = state.current_room

sync_flags_with_items(state) ==
    LET torch == state.items.torch
        holding == (torch.location = "player")
        lit_global == torch.lit
        lit_in_cell == lit_global /\ torch.location \in {"player", "cell_01"}
        lit_in_coal == lit_global /\ torch.location \in {"player", "coal_01"}
    IN  [state EXCEPT
            !.flags_coal.has_torch_stick = (holding /\ ~lit_global),
            !.flags_coal.torch_lit = lit_in_coal,
            !.flags_cell.torch_keys = TRUE,
            !.flags_cell.has_torch_stick =
                IF state.current_room = "cell_01" THEN (holding /\ ~lit_global) ELSE FALSE,
            !.flags_cell.torch_lit =
                IF state.current_room = "cell_01" THEN lit_in_cell ELSE FALSE]

Max(a, b) == IF a >= b THEN a ELSE b
Min(a, b) == IF a <= b THEN a ELSE b

\* ---- Rule Enforcement Engine: validate_and_apply, block by block ----
\* The context c holds the function's locals: c.state is the GameState being
\* mutated, c.llm the proposal (llm.flags_set and llm.hp_delta are rewritten by
\* the function), c.events the local list `events` (order and duplicates are
\* dropped: the function only tests membership), c.notes the tags of the
\* diagnostic notes the claims refer to.

\* lines 951-1016: locals, snapshots, noise clamp
Begin(state, llm, t) ==
    [state |-> state,
     text |-> t,
     llm |-> llm,
     events |-> {},
     notes |-> {},
     scrubbed_illegal_events |-> FALSE,
     crossbow_nohold |-> FALSE,
     was_stone_moved_before |-> (state.current_room = "cell_01" /\ state.flags_cell.stone_moved),
     attempted_move_stone_input |-> (state.current_room = "cell_01" /\ Has(t, "STONE_ACT_RE")),
     was_found_before |-> state.flags_cell.found_loose_stone,
     was_knight_out_before |-> state.flags_hall.knight_knocked_out,
     room_transition |-> None,
     game_won |-> FALSE,
     holding_torch_snapshot |-> (state.items.torch.location = "player"),
     noise |-> Max(0, Min(3, llm.noise_level)),
     dark_here |-> FALSE,
     cancel_movement_this_turn |-> FALSE,
     enforced_hp_delta |-> 0,
     cause |-> "",
     shoot_count |-> 0,
     new_flags |-> {}]

allowed_flags(current_room) ==
    CASE current_room = "cell_01" -> ALLOWED_CELL_FLAGS
      [] current_room = "coal_01" -> ALLOWED_COAL_FLAGS
      [] current_room = "hall_01" -> ALLOWED_HALL_FLAGS
      [] current_room = "courtyard_01" -> ALLOWED_COURTYARD_FLAGS
      [] OTHER -> {}

\* lines 1018-1033
FilterFlags(c) ==
    [c EXCEPT !.llm.flags_set = c.llm.flags_set \cap allowed_flags(c.state.current_room)]

\* lines 1035-1052
SanitizeEvents(c) ==
    LET e0 == c.llm.events \cap ALLOWED_EVENTS
        outside == c.state.current_room # "coal_01" /\ "dark_stumble" \in e0
        e1 == IF outside THEN e0 \ {"dark_stumble"} ELSE e0
        lit_coal == c.state.current_room = "coal_01" /\ torch_light_present_here(c.state)
    IN  [c EXCEPT
            !.events = IF lit_coal THEN e1 \ {"dark_stumble"} ELSE e1,
            !.scrubbed_illegal_events = outside,
            !.llm.hp_delta = IF lit_coal /\ c.llm.hp_delta < 0 THEN 0 ELSE c.llm.hp_delta]

\* lines 1055-1064
InferIntent(c) ==
    LET ev_move == infer_move_event(c.state.current_room, c.text)
        ev_item == infer_item_event(c.text)
    IN  [c EXCEPT !.events = c.events \cup ({ev_move, ev_item} \ {None})]

\* StrawRummage that records the event and leaves the flag to the flag block
StrawRummage_event_only(c) ==
    IF /\ c.state.current_room = "cell_01"
       /\ ~c.state.flags_cell.found_loose_stone
       /\ Has(c.text, "STRAW_RE")
    THEN [c EXCEPT !.events = c.events \cup {"straw_rummaged"}]
    ELSE c

\* lines 1066-1086
StrawRummage(c) ==
    IF /\ c.state.current_room = "cell_01"
       /\ ~c.state.flags_cell.found_loose_stone
       /\ Has(c.text, "STRAW_RE")
    THEN [c EXCEPT !.events = c.events \cup {"straw_rummaged"},
                   !.state.flags_cell.found_loose_stone = TRUE]
    ELSE c

\* lines 1094-1110
ResolveCoalContradiction(c) ==
    IF /\ c.state.current_room = "coal_01"
       /\ "return_to_cell" \in c.events
       /\ "open_hall_door" \in c.events
    THEN LET inferred == infer_move_event("coal_01", c.text)
         IN  IF inferred = "return_to_cell"
             THEN [c EXCEPT !.events = c.events \ {"open_hall_door"}]
             ELSE IF inferred = "open_hall_door"
             THEN [c EXCEPT !.events = c.events \ {"return_to_cell"}]
             ELSE IF ~torch_light_present_here(c.state)
             THEN [c EXCEPT !.events = c.events \ {"open_hall_door"}]
             ELSE [c EXCEPT !.events = c.events \ {"return_to_cell"}]
    ELSE c

\* lines 1113-1121
SuppressStumbleOnEntry(c) ==
    IF "dark_stumble" \in c.events /\ ("enter_coal_cellar" \in c.events \/ "return_to_coal" \in c.events)
    THEN [c EXCEPT !.events = c.events \ {"dark_stumble"}]
    ELSE c

\* lines 1124-1128
ScrubUnlockOutsideHall(c) ==
    IF c.state.current_room # "hall_01" /\ "unlock_courtyard_door" \in c.events
    THEN [c EXCEPT !.events = c.events \ {"unlock_courtyard_door"},
                   !.scrubbed_illegal_events = TRUE]
    ELSE c

\* lines 1130-1134
GateFlagHygiene(c) ==
    IF /\ c.state.current_room = "courtyard_01"
       /\ "gate_lowered" \in c.llm.flags_set
       /\ ("pull_lever" \notin c.events \/ ~c.state.flags_courtyard.at_tower_top)
    THEN [c EXCEPT !.llm.flags_set = c.llm.flags_set \ {"gate_lowered"}]
    ELSE c

\* lines 1136-1139
DropToExtinguish(c) ==
    IF "drop_torch" \in c.events /\ Has(c.text, "EXTINGUISH_RE")
    THEN [c EXCEPT !.events = (c.events \ {"drop_torch"}) \cup {"extinguish_torch"}]
    ELSE c

\* StrawGuard that lets the proposal's straw_rummaged stand
StrawGuard_trusting(c) ==
    c

\* lines 1141-1150
StrawGuard(c) ==
    IF /\ c.state.current_room = "cell_01"
       /\ "straw_rummaged" \in c.events
       /\ ~Has(c.text, "STRAW_RE")
    THEN [c EXCEPT !.events = c.events \ {"straw_rummaged"},
                   !.llm.flags_set = c.llm.flags_set \ {"found_loose_stone"}]
    ELSE c

\* lines 1152-1157
InferStoneLifted(c) ==
    IF /\ c.state.current_room = "cell_01"
       /\ c.state.flags_cell.found_loose_stone
       /\ ~c.state.flags_cell.stone_moved
       /\ Has(c.text, "STONE_ACT_RE")
    THEN [c EXCEPT !.events = c.events \cup {"stone_lifted"}]
    ELSE c

\* lines 1159-1178
DarknessGuard(c) ==
    LET dark_here == c.state.current_room = "coal_01" /\ ~torch_light_present_here(c.state)
        local_probe == Has(c.text, "LOCAL_PROBE")
        inject == /\ dark_here
                  /\ Has(c.text, "MOVE_DEEPER_RE")
                  /\ "return_to_cell" \notin c.events
                  /\ ~local_probe
        ev == IF inject THEN c.events \cup {"dark_stumble"} ELSE c.events
    IN  [c EXCEPT
            !.dark_here = dark_here,
            !.events = ev,
            !.cancel_movement_this_turn =
                /\ c.state.current_room = "coal_01"
                /\ "dark_stumble" \in ev
                /\ "return_to_cell" \notin ev]

\* CellPolicy that keeps a harsher hp_delta of the proposal
CellPolicy_trusting(c) ==
    IF c.noise >= 2
    THEN [c EXCEPT !.enforced_hp_delta = Min(-20, c.llm.hp_delta),
                   !.cause = "Guard strikes you for disturbing his slumber",
                   !.events = c.events \cup {"guard_punishes"}]
    ELSE [c EXCEPT !.events = c.events \ {"guard_punishes"}]

\* lines 1191-1214
CellPolicy(c) ==
    IF c.noise >= 2
    THEN [c EXCEPT !.enforced_hp_delta = -20,
                   !.cause = "Guard strikes you for disturbing his slumber",
                   !.events = c.events \cup {"guard_punishes"}]
    ELSE [c EXCEPT !.events = c.events \ {"guard_punishes"}]

\* lines 1216-1228
CoalPolicy(c) ==
    IF "dark_stumble" \in c.events
    THEN IF torch_light_present_here(c.state)
         THEN [c EXCEPT !.events = c.events \ {"dark_stumble"}]
         ELSE [c EXCEPT !.enforced_hp_delta = -10,
                        !.cause = "You stumble in the dark"]
    ELSE c

\* lines 1240-1251
HallScrub(c) ==
    LET e1 == IF c.noise < 2 THEN c.events \ {"knight_notice", "combat_knock_guard"} ELSE c.events
    IN  [c EXCEPT !.events = e1 \ {"open_hall_door"},
                  !.scrubbed_illegal_events = c.scrubbed_illegal_events \/ "open_hall_door" \in e1]

\* KnightCombat that reads the torch from the proposal's events instead of the snapshot
KnightCombat_nosnapshot(c) ==
    IF c.noise >= 2 /\ ~c.state.flags_hall.knight_knocked_out
    THEN [c EXCEPT !.events = c.events \cup {"knight_notice", "combat_knock_guard"},
                   !.enforced_hp_delta =
                       IF c.holding_torch_snapshot /\ "drop_torch" \notin c.events
                       THEN -30 ELSE -50,
                   !.cause = "The knight hears you; you struggle and knock him out",
                   !.state.flags_hall.knight_knocked_out = TRUE]
    ELSE c

\* lines 1256-1282
KnightCombat(c) ==
    IF c.noise >= 2 /\ ~c.state.flags_hall.knight_knocked_out
    THEN [c EXCEPT !.events = c.events \cup {"knight_notice", "combat_knock_guard"},
                   !.enforced_hp_delta = IF c.holding_torch_snapshot THEN -30 ELSE -50,
                   !.cause = "The knight hears you; you struggle and knock him out",
                   !.state.flags_hall.knight_knocked_out = TRUE]
    ELSE c

\* lines 1285-1290
KnightAlreadyOut(c) ==
    IF c.was_knight_out_before
    THEN [c EXCEPT !.events = c.events \ {"knight_notice", "combat_knock_guard"}]
    ELSE c

\* lines 1320-1331
HallReturnToCoal(c) ==
    LET can_go_back == "coal_01" \in ROOM_GRAPH["hall_01"]
        torch_obj == c.state.items.torch
        carrying_lit_torch == torch_obj.location = "player" /\ torch_obj.lit
    IN  IF "return_to_coal" \in c.events /\ can_go_back
        THEN IF ~carrying_lit_torch
             THEN [c EXCEPT !.events = c.events \ {"return_to_coal"},
                            !.notes = c.notes \cup {"blocked_return_to_coal"}]
             ELSE [c EXCEPT !.room_transition = "coal_01"]
        ELSE c

\* lines 1335-1354
HallUnlockCourtyard(c) ==
    IF "unlock_courtyard_door" \in c.events
    THEN LET inferred == infer_move_event("hall_01", c.text)
         IN  IF inferred # "unlock_courtyard_door"
             THEN [c EXCEPT !.events = c.events \ {"unlock_courtyard_door"},
                            !.notes = c.notes \cup {"blocked_unlock_no_intent"}]
             ELSE IF c.state.items.keys.location = "player"
             THEN [c EXCEPT !.state.flags_hall.courtyard_door_unlocked = TRUE,
                            !.room_transition = "courtyard_01"]
             ELSE [c EXCEPT !.notes = c.notes \cup {"unlock_without_keys"}]
    ELSE c

\* lines 1230-1354
HallPolicy(c) ==
    HallUnlockCourtyard(HallReturnToCoal(KnightAlreadyOut(KnightCombat(HallScrub(c)))))

Ladder == {"climb_ladder_up", "climb_ladder_down"}

\* lines 1359-1377: scrub guards_arrive, swim cancels the ladder, shooting count
CourtyardScrub(c) ==
    LET fc == c.state.flags_courtyard
        e1 == IF "guards_arrive" \in c.events /\ ("pull_lever" \notin c.events \/ ~fc.at_tower_top)
              THEN c.events \ {"guards_arrive"} ELSE c.events
        e2 == IF "swim_across" \in e1 THEN e1 \ Ladder ELSE e1
    IN  [c EXCEPT !.events = e2,
                  !.shoot_count = IF "shoot_guard" \in e2
                                  THEN IF Has(c.text, "ALL_THREE_RE") THEN 3
                                       ELSE IF Has(c.text, "TWO_RE") THEN 2
                                       ELSE 1
                                  ELSE 0]

\* LadderMoves whose climb down lets the gate rise again
LadderMoves_gate_rises(c) ==
    LET fc0 == c.state.flags_courtyard
        e1 == IF fc0.in_moat /\ (c.events \cap Ladder) # {} THEN c.events \ Ladder ELSE c.events
        fc1 == IF "climb_ladder_up" \in e1
               THEN [fc0 EXCEPT !.at_tower_top = TRUE, !.in_moat = FALSE] ELSE fc0
        e2 == IF "climb_ladder_down" \in e1 /\ ~fc1.at_tower_top
              THEN e1 \ {"climb_ladder_down"} ELSE e1
        fc2 == IF "climb_ladder_down" \in e2
               THEN [fc1 EXCEPT !.at_tower_top = FALSE, !.in_moat = FALSE, !.gate_lowered = FALSE]
               ELSE fc1
    IN  [c EXCEPT !.events = e2, !.state.flags_courtyard = fc2]

\* lines 1379-1411: movement on the ladder
LadderMoves(c) ==
    LET fc0 == c.state.flags_courtyard
        e1 == IF fc0.in_moat /\ (c.events \cap Ladder) # {} THEN c.events \ Ladder ELSE c.events
        fc1 == IF "climb_ladder_up" \in e1
               THEN [fc0 EXCEPT !.at_tower_top = TRUE, !.in_moat = FALSE] ELSE fc0
        e2 == IF "climb_ladder_down" \in e1 /\ ~fc1.at_tower_top
              THEN e1 \ {"climb_ladder_down"} ELSE e1
        fc2 == IF "climb_ladder_down" \in e2
               THEN [fc1 EXCEPT !.at_tower_top = FALSE, !.in_moat = FALSE] ELSE fc1
    IN  [c EXCEPT !.events = e2, !.state.flags_courtyard = fc2]

\* PullLever that summons the guards whenever none are present
PullLever_resummon(c) ==
    LET fc == c.state.flags_courtyard
    IN  IF "pull_lever" \notin c.events THEN c
        ELSE IF ~fc.at_tower_top
        THEN [c EXCEPT !.events = c.events \ {"pull_lever", "guards_arrive"},
                       !.notes = c.notes \cup {"lever_from_ground"}]
        ELSE [c EXCEPT
                !.noise = Max(c.noise, 3),
                !.state.flags_courtyard.gate_lowered = TRUE,
                !.state.flags_courtyard.guards_present = TRUE,
                !.state.flags_courtyard.guards_remaining =
                    IF ~fc.guards_present THEN 3 ELSE fc.guards_remaining,
                !.events = c.events \cup {"guards_arrive"},
                !.notes = c.notes \cup {"lever_at_top"}]

\* lines 1413-1434: the lever
PullLever(c) ==
    LET fc == c.state.flags_courtyard
    IN  IF "pull_lever" \notin c.events THEN c
        ELSE IF ~fc.at_tower_top
        THEN [c EXCEPT !.events = c.events \ {"pull_lever", "guards_arrive"},
                       !.notes = c.notes \cup {"lever_from_ground"}]
        ELSE LET gate_was_lowered == fc.gate_lowered
             IN  IF ~gate_was_lowered
                 THEN [c EXCEPT
                         !.noise = Max(c.noise, 3),
                         !.state.flags_courtyard.gate_lowered = TRUE,
                         !.state.flags_courtyard.guards_present = TRUE,
                         !.state.flags_courtyard.guards_remaining =
                             IF ~fc.guards_present THEN 3 ELSE fc.guards_remaining,
                         !.events = c.events \cup {"guards_arrive"},
                         !.notes = c.notes \cup {"lever_at_top"}]
                 ELSE [c EXCEPT
                         !.noise = Max(c.noise, 3),
                         !.state.flags_courtyard.gate_lowered = TRUE,
                         !.notes = c.notes \cup {"lever_at_top", "lever_again"}]

\* Shoot that takes every requested guard off the count, without the min
Shoot_overkill(c) ==
    LET fc == c.state.flags_courtyard
    IN  IF c.shoot_count <= 0 THEN c
        ELSE IF c.state.items.crossbow.location # "player"
        THEN [c EXCEPT !.events = c.events \ {"shoot_guard"}, !.crossbow_nohold = TRUE]
        ELSE IF ~fc.guards_present \/ fc.guards_remaining <= 0 THEN c
        ELSE LET left == fc.guards_remaining - c.shoot_count
             IN  [c EXCEPT !.state.flags_courtyard.guards_remaining = left,
                           !.state.flags_courtyard.guards_present =
                               IF left <= 0 THEN FALSE ELSE fc.guards_present]

\* lines 1437-1451: shooting
Shoot(c) ==
    LET fc == c.state.flags_courtyard
    IN  IF c.shoot_count <= 0 THEN c
        ELSE IF c.state.items.crossbow.location # "player"
        THEN [c EXCEPT !.events = c.events \ {"shoot_guard"}, !.crossbow_nohold = TRUE]
        ELSE IF ~fc.guards_present \/ fc.guards_remaining <= 0 THEN c
        ELSE LET kills == Min(c.shoot_count, fc.guards_remaining)
                 left == fc.guards_remaining - kills
             IN  [c EXCEPT !.state.flags_courtyard.guards_remaining = left,
                           !.state.flags_courtyard.guards_present =
                               IF left <= 0 THEN FALSE ELSE fc.guards_present]

\* lines 1477-1492: the moat jump
JumpIntoMoat(c) ==
    IF "jump_into_moat" \notin c.events THEN c
    ELSE IF c.state.flags_courtyard.at_tower_top
    THEN [c EXCEPT !.enforced_hp_delta = -40,
                   !.cause = "You plunge into the moat",
                   !.state.flags_courtyard.in_moat = TRUE,
                   !.state.flags_courtyard.at_tower_top = FALSE]
    ELSE [c EXCEPT !.events = c.events \ {"jump_into_moat"}]

\* Victory that lets the bridge be crossed without testing gate_lowered
Victory_gate_up(c) ==
    LET fc == c.state.flags_courtyard
        swim_ok == "swim_across" \in c.events /\ fc.in_moat
        e1 == IF "swim_across" \in c.events /\ ~fc.in_moat
              THEN c.events \ {"swim_across"} ELSE c.events
        via_gate == "cross_gate_bridge" \in e1 /\ ~fc.in_moat /\ ~fc.at_tower_top
        battered == /\ ~(via_gate \/ swim_ok)
                    /\ ~fc.at_tower_top
                    /\ ~fc.in_moat
                    /\ fc.guards_present
                    /\ fc.guards_remaining > 0
    IN  [c EXCEPT !.events = e1,
                  !.enforced_hp_delta = IF battered THEN c.enforced_hp_delta + (-60)
                                        ELSE c.enforced_hp_delta,
                  !.cause = IF battered THEN "The charging guards batter you on the grass"
                            ELSE c.cause,
                  !.game_won = via_gate \/ swim_ok]

\* Victory that lets the player swim across from anywhere
Victory_swim_anywhere(c) ==
    LET fc == c.state.flags_courtyard
        pending_victory_via_swim == "swim_across" \in c.events
        pending_victory_via_gate ==
            /\ "cross_gate_bridge" \in c.events
            /\ fc.gate_lowered
            /\ ~fc.in_moat
            /\ ~fc.at_tower_top
        battered == /\ ~(pending_victory_via_gate \/ pending_victory_via_swim)
                    /\ ~fc.at_tower_top
                    /\ ~fc.in_moat
                    /\ fc.guards_present
                    /\ fc.guards_remaining > 0
    IN  [c EXCEPT !.enforced_hp_delta = IF battered THEN c.enforced_hp_delta + (-60)
                                        ELSE c.enforced_hp_delta,
                  !.cause = IF battered THEN "The charging guards batter you on the grass"
                            ELSE c.cause,
                  !.game_won = pending_victory_via_gate \/ pending_victory_via_swim]

\* lines 1495-1542: victory attempts and the guards' damage on the grass
Victory(c) ==
    LET fc == c.state.flags_courtyard
        swim_ok == "swim_across" \in c.events /\ fc.in_moat
        e1 == IF "swim_across" \in c.events /\ ~fc.in_moat
              THEN c.events \ {"swim_across"} ELSE c.events
        pending_victory_via_swim == swim_ok
        pending_victory_via_gate ==
            /\ "cross_gate_bridge" \in e1
            /\ fc.gate_lowered
            /\ ~fc.in_moat
            /\ ~fc.at_tower_top
        battered == /\ ~(pending_victory_via_gate \/ pending_victory_via_swim)
                    /\ ~fc.at_tower_top
                    /\ ~fc.in_moat
                    /\ fc.guards_present
                    /\ fc.guards_remaining > 0
    IN  [c EXCEPT !.events = e1,
                  !.enforced_hp_delta = IF battered THEN c.enforced_hp_delta + (-60)
                                        ELSE c.enforced_hp_delta,
                  !.cause = IF battered THEN "The charging guards batter you on the grass"
                            ELSE c.cause,
                  !.game_won = pending_victory_via_gate \/ pending_victory_via_swim]

\* lines 1357-1542
CourtyardPolicy(c) ==
    Victory(JumpIntoMoat(Shoot(PullLever(LadderMoves(CourtyardScrub(c))))))

\* lines 1187-1542: HP / punishments, by room
RoomPolicy(c) ==
    CASE c.state.current_room = "cell_01" -> CellPolicy(c)
      [] c.state.current_room = "coal_01" -> CoalPolicy(c)
      [] c.state.current_room = "hall_01" -> HallPolicy(c)
      [] c.state.current_room = "courtyard_01" -> CourtyardPolicy(c)
      [] OTHER -> c

\* lines 1544-1563
event_to_flag(current_room, e) ==
    IF current_room = "cell_01"
    THEN CASE e = "stone_lifted" -> "stone_moved"
           [] e = "stone_moved" -> "stone_moved"
           [] e = "straw_rummaged" -> "found_loose_stone"
           [] e = "enter_coal_cellar" -> "entered_hole"
           [] e = "light_torch" -> "torch_lit"
           [] OTHER -> None
    ELSE CASE e = "pickup_stick" -> "has_torch_stick"
           [] e = "pickup_torch" -> "has_torch_stick"
           [] e = "light_torch" -> "torch_lit"
           [] e = "pull_lever" -> "gate_lowered"
           [] OTHER -> None

DeriveFlags(c) ==
    [c EXCEPT !.llm.flags_set =
        c.llm.flags_set \cup ({event_to_flag(c.state.current_room, e) : e \in c.events} \ {None})]

\* lines 1568-1575
ApplyFoundLooseStone(c) ==
    IF /\ "found_loose_stone" \in c.llm.flags_set
       /\ ~c.state.flags_cell.found_loose_stone
       /\ \/ "straw_rummaged" \in c.events
          \/ "stone_revealed" \in c.events
          \/ Has(c.text, "STRAW_RE")
    THEN [c EXCEPT !.state.flags_cell.found_loose_stone = TRUE,
                   !.new_flags = c.new_flags \cup {"found_loose_stone"}]
    ELSE c

\* ApplyStoneMoved without the test of found_loose_stone
ApplyStoneMoved_noprereq(c) ==
    IF "stone_moved" \in c.llm.flags_set /\ ~c.state.flags_cell.stone_moved
    THEN [c EXCEPT !.state.flags_cell.stone_moved = TRUE,
                   !.new_flags = c.new_flags \cup {"stone_moved"}]
    ELSE c

\* lines 1577-1583
ApplyStoneMoved(c) ==
    IF /\ "stone_moved" \in c.llm.flags_set
       /\ c.state.flags_cell.found_loose_stone
       /\ ~c.state.flags_cell.stone_moved
    THEN [c EXCEPT !.state.flags_cell.stone_moved = TRUE,
                   !.new_flags = c.new_flags \cup {"stone_moved"}]
    ELSE c

\* lines 1585-1590
ApplyEnteredHole(c) ==
    IF /\ "entered_hole" \in c.llm.flags_set
       /\ c.state.flags_cell.stone_moved
       /\ ~c.state.flags_cell.entered_hole
    THEN [c EXCEPT !.state.flags_cell.entered_hole = TRUE,
                   !.new_flags = c.new_flags \cup {"entered_hole"}]
    ELSE c

\* lines 1565-1590
ApplyCellFlags(c) ==
    IF c.state.current_room = "cell_01"
    THEN ApplyEnteredHole(ApplyStoneMoved(ApplyFoundLooseStone(c)))
    ELSE c

\* lines 1600-1614: extinguish (holding_torch is the value computed at line 1596)
Extinguish(c, holding_torch) ==
    LET torch == c.state.items.torch
    IN  IF "extinguish_torch" \notin c.events THEN c
        ELSE IF holding_torch /\ torch.lit
        THEN [c EXCEPT !.state.items.torch.lit = FALSE]
        ELSE IF torch.location = c.state.current_room /\ torch.lit
        THEN [c EXCEPT !.state.items.torch.lit = FALSE]
        ELSE c

\* lines 1616-1621
DropTorch(c, holding_torch) ==
    IF "drop_torch" \in c.events /\ holding_torch
    THEN [c EXCEPT !.state.items.torch.location = c.state.current_room]
    ELSE c

\* lines 1623-1628
DropKeys(c, holding_keys) ==
    IF "drop_keys" \in c.events /\ holding_keys
    THEN [c EXCEPT !.state.items.keys.location = c.state.current_room]
    ELSE c

\* lines 1630-1644
DropCrossbow(c, holding_crossbow) ==
    IF "drop_crossbow" \in c.events /\ holding_crossbow
    THEN IF c.state.current_room = "courtyard_01" /\ c.state.flags_courtyard.in_moat
         THEN [c EXCEPT !.events = c.events \ {"drop_crossbow"}]
         ELSE IF c.state.current_room = "courtyard_01" /\ c.state.flags_courtyard.at_tower_top
         THEN [c EXCEPT !.state.items.crossbow.location = "courtyard_tower_top"]
         ELSE [c EXCEPT !.state.items.crossbow.location = c.state.current_room]
    ELSE c

\* lines 1592-1644: drops first
ProcessDrops(c) ==
    LET holding_torch == c.state.items.torch.location = "player"
        holding_keys == c.state.items.keys.location = "player"
        holding_crossbow == c.state.items.crossbow.location = "player"
    IN  DropCrossbow(DropKeys(DropTorch(Extinguish(c, holding_torch), holding_torch),
                              holding_keys), holding_crossbow)

\* slot_occupied computed once before the pickups, from keys and crossbow only
slot_occupied_stale(state) ==
    \/ state.items.keys.location = "player"
    \/ state.items.crossbow.location = "player"

\* lines 1647-1658: slot occupancy, recomputed from the items
slot_occupied(state) ==
    \/ state.items.torch.location = "player"
    \/ state.items.keys.location = "player"
    \/ state.items.crossbow.location = "player"

\* lines 1660-1680
PickupTorch(c) ==
    IF \/ "pickup_stick" \in c.events
       \/ "pickup_torch" \in c.events
       \/ "has_torch_stick" \in c.llm.flags_set
    THEN IF c.state.items.torch.location = "player" THEN c
         ELSE IF slot_occupied(c.state)
         THEN [c EXCEPT !.notes = c.notes \cup {"hands_full"}]
         ELSE IF c.state.items.torch.location = c.state.current_room
         THEN [c EXCEPT !.state.items.torch.location = "player",
                        !.new_flags = c.new_flags \cup {"has_torch_stick"}]
         ELSE [c EXCEPT !.notes = c.notes \cup {"not_here"}]
    ELSE c

\* PickupKeys that takes the keys whatever the hands hold
PickupKeys_full_hands(c) ==
    IF "pickup_keys" \in c.events
    THEN IF c.state.items.keys.location = "player" THEN c
         ELSE IF c.state.items.keys.location = c.state.current_room
         THEN [c EXCEPT !.state.items.keys.location = "player"]
         ELSE [c EXCEPT !.notes = c.notes \cup {"not_here"}]
    ELSE c

\* lines 1682-1697
PickupKeys(c) ==
    IF "pickup_keys" \in c.events
    THEN IF c.state.items.keys.location = "player" THEN c
         ELSE IF slot_occupied(c.state)
         THEN [c EXCEPT !.notes = c.notes \cup {"hands_full"}]
         ELSE IF c.state.items.keys.location = c.state.current_room
         THEN [c EXCEPT !.state.items.keys.location = "player"]
         ELSE [c EXCEPT !.notes = c.notes \cup {"not_here"}]
    ELSE c

\* lines 1699-1721
PickupCrossbow(c) ==
    IF "pickup_crossbow" \in c.events
    THEN IF c.state.items.crossbow.location = "player" THEN c
         ELSE IF slot_occupied(c.state)
         THEN [c EXCEPT !.notes = c.notes \cup {"hands_full"}]
         ELSE LET in_moat == c.state.flags_courtyard.in_moat
                  at_top == c.state.flags_courtyard.at_tower_top
                  loc == c.state.items.crossbow.location
                  here == c.state.current_room = "courtyard_01"
              IN  IF here /\ in_moat
                  THEN [c EXCEPT !.notes = c.notes \cup {"not_here"}]
                  ELSE IF here /\ at_top /\ loc = "courtyard_tower_top"
                  THEN [c EXCEPT !.state.items.crossbow.location = "player"]
                  ELSE IF here /\ ~at_top /\ ~in_moat /\ loc = "courtyard_01"
                  THEN [c EXCEPT !.state.items.crossbow.location = "player"]
                  ELSE [c EXCEPT !.notes = c.notes \cup {"not_here"}]
    ELSE c

\* ProcessPickups that judges the hands by the torch held when the turn began
ProcessPickups_snapshot(c) ==
    IF c.holding_torch_snapshot
    THEN [c EXCEPT !.notes = c.notes \cup {"hands_full"}]
    ELSE PickupCrossbow(PickupKeys(PickupTorch(c)))

\* lines 1660-1721: pickups after drops
ProcessPickups(c) ==
    PickupCrossbow(PickupKeys(PickupTorch(c)))

\* LightTorch that lights the held torch in any room
LightTorch_any_room(c) ==
    IF "light_torch" \notin c.events THEN c
    ELSE LET holding_torch_now == c.state.items.torch.location = "player"
         IN  IF ~holding_torch_now
             THEN [c EXCEPT !.events = c.events \ {"light_torch"}]
             ELSE IF c.state.items.torch.lit THEN c
             ELSE [c EXCEPT !.state.items.torch.lit = TRUE,
                            !.new_flags = c.new_flags \cup {"torch_lit"}]

\* lines 1724-1748
LightTorch(c) ==
    IF "light_torch" \notin c.events THEN c
    ELSE LET holding_torch_now == c.state.items.torch.location = "player"
         IN  IF c.state.current_room # "cell_01"
             THEN [c EXCEPT !.events = c.events \ {"light_torch"},
                            !.llm.flags_set = c.llm.flags_set \ {"torch_lit"}]
             ELSE IF ~holding_torch_now
             THEN [c EXCEPT !.events = c.events \ {"light_torch"}]
             ELSE IF c.state.items.torch.lit THEN c
             ELSE [c EXCEPT !.state.items.torch.lit = TRUE,
                            !.new_flags = c.new_flags \cup {"torch_lit"}]

\* line 1751
SyncFlags(c) ==
    [c EXCEPT !.state = sync_flags_with_items(c.state)]

\* progression values, already stripped and lower-cased (line 1753)
prog_norm(c) == c.llm.progression

\* CellGate that lets the proposal alone move the player through the hole
CellGate_proposal_moves(c) ==
    LET can_go == "coal_01" \in ROOM_GRAPH["cell_01"] /\ c.state.flags_cell.stone_moved
        wants_go == \/ "enter_coal_cellar" \in c.events
                    \/ prog_norm(c) \in {"next_room", "coal_01", "coal", "coal_cellar"}
                    \/ "entered_hole" \in c.llm.flags_set
    IN  IF can_go /\ wants_go /\ ~c.cancel_movement_this_turn
        THEN [c EXCEPT !.room_transition = "coal_01"]
        ELSE IF wants_go /\ ~can_go
        THEN [c EXCEPT !.notes = c.notes \cup {"stone_blocks"}]
        ELSE c

\* lines 1755-1776
CellGate(c) ==
    LET can_go == "coal_01" \in ROOM_GRAPH["cell_01"] /\ c.state.flags_cell.stone_moved
        wants_go == \/ "enter_coal_cellar" \in c.events
                    \/ prog_norm(c) \in {"next_room", "coal_01", "coal", "coal_cellar"}
                    \/ "entered_hole" \in c.llm.flags_set
        input_move_intent == infer_move_event("cell_01", c.text) = "enter_coal_cellar"
    IN  IF can_go /\ wants_go /\ input_move_intent /\ ~c.cancel_movement_this_turn
        THEN [c EXCEPT !.room_transition = "coal_01"]
        ELSE IF wants_go /\ ~input_move_intent
        THEN [c EXCEPT !.notes = c.notes \cup {"no_move_intent"}]
        ELSE IF wants_go /\ ~can_go
        THEN [c EXCEPT !.notes = c.notes \cup {"stone_blocks"}]
        ELSE c

\* lines 1779-1785
CoalReturnGate(c) ==
    LET can_go == "cell_01" \in ROOM_GRAPH["coal_01"]
        wants_go == \/ "return_to_cell" \in c.events
                    \/ prog_norm(c) \in {"cell_01", "cell", "prison_cell"}
    IN  IF can_go /\ wants_go /\ ~c.cancel_movement_this_turn
        THEN [c EXCEPT !.room_transition = "cell_01"]
        ELSE c

\* CoalDoorGate without the test of torchlight
CoalDoorGate_nolight(c) ==
    IF "open_hall_door" \in c.events
    THEN IF infer_move_event("coal_01", c.text) # "open_hall_door"
         THEN [c EXCEPT !.events = c.events \ {"open_hall_door"},
                        !.notes = c.notes \cup {"blocked_door_no_intent"}]
         ELSE [c EXCEPT !.room_transition = "hall_01"]
    ELSE c

\* lines 1787-1799
CoalDoorGate(c) ==
    IF "open_hall_door" \in c.events
    THEN LET inferred == infer_move_event("coal_01", c.text)
         IN  IF inferred # "open_hall_door"
             THEN [c EXCEPT !.events = c.events \ {"open_hall_door"},
                            !.notes = c.notes \cup {"blocked_door_no_intent"}]
             ELSE IF torch_light_present_here(c.state)
             THEN [c EXCEPT !.room_transition = "hall_01"]
             ELSE [c EXCEPT !.notes = c.notes \cup {"door_in_darkness"}]
    ELSE c

\* lines 1753-1799: room transition gating for the cell and the coal cellar
TransitionGate(c) ==
    CASE c.state.current_room = "cell_01" -> CellGate(c)
      [] c.state.current_room = "coal_01" -> CoalDoorGate(CoalReturnGate(c))
      [] OTHER -> c

\* ApplyHP without the clip to [0, 100]
ApplyHP_unclamped(c) ==
    [c EXCEPT !.state.hp = c.state.hp + c.enforced_hp_delta]

\* ApplyHP that lets a night's rest heal: a turn without damage gives 10 HP
ApplyHP_resting(c) ==
    [c EXCEPT !.state.hp = IF c.enforced_hp_delta = 0 THEN Min(100, c.state.hp + 10)
                           ELSE Max(0, Min(100, c.state.hp + c.enforced_hp_delta))]

\* ApplyHP that adds the proposal's hp_delta to the engine's
ApplyHP_proposal(c) ==
    [c EXCEPT !.state.hp = Max(0, Min(100, c.state.hp + c.enforced_hp_delta + c.llm.hp_delta))]

\* lines 1803-1807 (prev_hp is needed by something_happened, line 1973)
ApplyHP(c) ==
    [c EXCEPT !.state.hp = Max(0, Min(100, c.state.hp + c.enforced_hp_delta))]

\* lines 1869-1878: the event scrubs inside the narration section
ScrubGuardAndKnight(c) ==
    LET e1 == IF c.state.current_room # "cell_01" THEN c.events \ {"guard_punishes"} ELSE c.events
    IN  [c EXCEPT !.events = IF c.state.current_room \in {"cell_01", "coal_01"}
                             THEN e1 \ {"knight_notice", "combat_knock_guard"}
                             ELSE e1]

\* lines 1931-1955: commit the room transition, refresh the inventory projection
CommitTransition(c) ==
    LET s1 == IF c.room_transition # None
              THEN sync_flags_with_items([c.state EXCEPT !.current_room = c.room_transition])
              ELSE c.state
    IN  [c EXCEPT !.state = [s1 EXCEPT !.inventory = inventory_items_from_items(s1)]]

\* lines 2033-2044
Outcome(c) ==
    [applied_noise |-> c.noise,
     applied_hp_delta |-> c.enforced_hp_delta,
     events |-> c.events,
     new_flags |-> c.new_flags,
     cause |-> c.cause,
     room_transition |-> c.room_transition,
     game_won |-> c.game_won,
     notes |-> c.notes]

\* lines 947-1590: the context on entry to the drops
BeforeDrops(state, llm, t) ==
    ApplyCellFlags(DeriveFlags(RoomPolicy(DarknessGuard(
    InferStoneLifted(StrawGuard(DropToExtinguish(GateFlagHygiene(ScrubUnlockOutsideHall(
    SuppressStumbleOnEntry(ResolveCoalContradiction(StrawRummage(InferIntent(
    SanitizeEvents(FilterFlags(Begin(state, llm, t))))))))))))))))

\* lines 947-2044: the blocks in the order of the source
Blocks(state, llm, t) ==
    CommitTransition(ScrubGuardAndKnight(ApplyHP(TransitionGate(SyncFlags(LightTorch(
    ProcessPickups(ProcessDrops(ApplyCellFlags(DeriveFlags(RoomPolicy(DarknessGuard(
    InferStoneLifted(StrawGuard(DropToExtinguish(GateFlagHygiene(ScrubUnlockOutsideHall(
    SuppressStumbleOnEntry(ResolveCoalContradiction(StrawRummage(InferIntent(
    SanitizeEvents(FilterFlags(Begin(state, llm, t))))))))))))))))))))))))

validate_and_apply(state, llm, t) ==
    LET c == Blocks(state, llm, t)
    IN  [state |-> c.state, result |-> Outcome(c)]

\* ---- the narration's closing sentence ----
\* lines 1958-1968
meaningful_events ==
    {"drop_torch", "pickup_torch", "pickup_stick", "light_torch", "extinguish_torch",
     "drop_keys", "pickup_keys", "unlock_courtyard_door",
     "drop_crossbow", "pickup_crossbow", "shoot_guard",
     "dark_stumble", "guard_punishes",
     "enter_coal_cellar", "return_to_cell", "return_to_coal", "open_hall_door",
     "straw_rummaged", "stone_lifted",
     "knight_notice", "combat_knock_guard",
     "climb_ladder_up", "climb_ladder_down", "pull_lever", "guards_arrive",
     "cross_gate_bridge", "jump_into_moat", "swim_across"}

\* lines 1970-1975, on the context c at the end of the blocks; prev_hp is the
\* hp the turn started with
something_happened(c, prev_hp) ==
    \/ c.room_transition # None
    \/ c.game_won
    \/ c.state.hp # prev_hp
    \/ c.events \cap meaningful_events # {}

\* lines 2006-2010
look_only(c, prev_hp, t) ==
    /\ ~something_happened(c, prev_hp)
    /\ TextFacts[t] \cap {"LOOK_RE", "SEE_QUERY_RE", "ADVICE_QUERY_RE"} # {}

\* lines 2017-2028: the closing lines replace the narration by a sentence
\* that ends with "Nothing special happened." or append that sentence to it,
\* whatever the narration was before
nothing_line_enforced(c, prev_hp, t) ==
    /\ ~something_happened(c, prev_hp)
    /\ ~look_only(c, prev_hp, t)
    /\ (c.scrubbed_illegal_events \/ ~c.crossbow_nohold)

\* ---- Proposal Coercer ----
\* A proposal is the LLMResult record without its texts (narration, safety_reason).
LLMResult(noise_level, hp_delta, events, flags_set, progression) ==
    [noise_level |-> noise_level, hp_delta |-> hp_delta, events |-> events,
     flags_set |-> flags_set, progression |-> progression]

\* ---- bounds of the model ----
\* the proposal's numbers range over -1 .. MaxNoiseLevel and -MaxHpDelta .. MaxHpDelta
MaxNoiseLevel == 4
MaxHpDelta == 25

NoiseLevels == {-1, 0, 1, 2, MaxNoiseLevel}
HpDeltas == {-MaxHpDelta, -20, 0, MaxHpDelta}
\* what a proposal may carry: every allowed event, and names the engine does not know
ProposalEvents == ALLOWED_EVENTS \cup {"stone_moved", "stone_revealed", "teleport"}
ProposalFlags ==
    ALLOWED_CELL_FLAGS \cup ALLOWED_HALL_FLAGS \cup ALLOWED_COURTYARD_FLAGS \cup {"escaped"}
Progressions == {"stay", "next_room", "coal_01", "cell_01", "hall_01"}

\* the player texts tried in each room: the room's own vocabulary and some of the others'
RoomTexts(room) ==
    CASE room = "cell_01" ->
           {"look around", "wait quietly", "look under the straw bed", "lift the loose stone",
            "search the straw and lift the stone",
            "search the straw, lift the stone and crawl into the hole", "crawl into the hole",
            "throw the torch into the hole", "light the torch", "pick up the torch",
            "drop the torch", "extinguish the torch", "go back to the cellar", "open the door"}
      [] room = "coal_01" ->
           {"look around", "wait quietly", "walk deeper", "go back up through the hole",
            "return to the cell", "open the door", "go back to the cellar", "pick up the torch",
            "drop the torch", "extinguish the torch", "light the torch", "crawl into the hole",
            "unlock the door with the keys"}
      [] room = "hall_01" ->
           {"look around", "wait quietly", "open the door", "unlock the door with the keys",
            "go back to the cellar", "drop the torch and go back to the cellar", "take the keys",
            "drop the keys", "pick up the torch", "drop the torch", "extinguish the torch",
            "light the torch", "attack the knight"}
      [] room = "courtyard_01" ->
           {"look around", "wait quietly", "climb up the ladder", "climb down the ladder",
            "pull the lever", "pick up the crossbow", "drop the crossbow", "shoot the guard",
            "shoot two guards", "shoot all three guards", "cross the bridge",
            "jump into the moat", "swim across", "leave the castle", "drop the keys"}

\* the events a proposal adds to a turn whose text already carries an intent
CrossEvents(room) ==
    CASE room = "cell_01" ->
           {"straw_rummaged", "stone_lifted", "enter_coal_cellar", "pickup_torch", "drop_torch",
            "light_torch"}
      [] room = "coal_01" ->
           {"return_to_cell", "open_hall_door", "dark_stumble", "pickup_torch", "drop_torch"}
      [] room = "hall_01" ->
           {"pickup_keys", "drop_keys", "pickup_torch", "drop_torch", "extinguish_torch",
            "return_to_coal", "unlock_courtyard_door"}
      [] room = "courtyard_01" ->
           {"pull_lever", "swim_across", "shoot_guard", "pickup_crossbow", "jump_into_moat",
            "climb_ladder_up"}

NoOp == LLMResult(0, 0, {}, {}, "stay")

\* the proposals tried with a text that carries no intent of its own
AnyProposal ==
    {LLMResult(0, 0, {e}, {}, "stay") : e \in ProposalEvents}
    \cup {LLMResult(n, 0, {}, {}, "stay") : n \in NoiseLevels}
    \cup {LLMResult(n, h, {}, {}, "stay") : n \in {0, 2}, h \in HpDeltas}
    \cup {LLMResult(0, 0, {}, {f}, "stay") : f \in ProposalFlags}
    \cup {LLMResult(0, 0, {}, {}, g) : g \in Progressions}

\* the proposals tried with every text of the room
RoomProposals(room) ==
    {LLMResult(n, 0, {}, {}, "stay") : n \in {0, 2}}
    \cup {LLMResult(0, 0, {e}, {}, "stay") : e \in CrossEvents(room)}

Inputs(room) ==
    (RoomTexts(room) \X RoomProposals(room))
    \cup ({"wait quietly"} \X AnyProposal)
    \cup (IF room = "cell_01" THEN {"look under the straw bed"} \X AnyProposal ELSE {})
    \cup (IF room = "coal_01"
          THEN {<<"wait quietly", LLMResult(0, 0, {"return_to_cell", "open_hall_door"}, {}, "stay")>>}
          ELSE {})
    \cup (IF room = "courtyard_01"
          THEN {<<"drop the crossbow", LLMResult(0, 0, {"pickup_keys"}, {}, "stay")>>}
          ELSE {})

\* ---- session drivers ----
\* state    the GameState of the session (STATE in ui_server.py, state in main)
\* last     the turn the web handler has just applied, until it responds
\* driver   which driver runs the session: "main" (terminal loop) or "web"
\* running  the terminal loop has not returned
\* over     a turn has left hp <= 0 or returned game_won (kept by Quiet and Apply)
\* history  the number of exchanges appended to OllamaChat.history
\* req      the /act requests in flight, one per handler thread (main: handler 1)
\* SESSION_STARTED  ui_server.py's global of that name: the welcome has been sent
\* emitted  how often the welcome and each room's long introduction have been
\*          written to the player (kept by the steps of SpecIntro)
VARIABLES state, last, driver, running, over, history, req, SESSION_STARTED, emitted
vars == <<state, last, driver, running, over, history, req, SESSION_STARTED, emitted>>
session == <<driver, running, over, history, req>>
shown == <<SESSION_STARTED, emitted>>

\* nothing has been written to the player yet
NoEmissions == [welcome |-> 0, coal_01 |-> 0, hall_01 |-> 0, courtyard_01 |-> 0]

\* the handler threads of the web server (app.run: the development server is threaded)
MaxHandlers == 2
Handlers == 1..MaxHandlers

\* a handler with no request
IdleReq ==
    [pc |-> "idle", text |-> "wait quietly", state0 |-> GameState, seen |-> GameState,
     sent |-> 0, resp1 |-> "none", resp2 |-> "none", appended |-> FALSE,
     llm |-> NoOp, pre |-> GameState]

NoResult ==
    [applied_noise |-> 0, applied_hp_delta |-> 0, events |-> {}, new_flags |-> {}, cause |-> "",
     room_transition |-> None, game_won |-> FALSE, notes |-> {}]

\* the handler is waiting for a request
Idle ==
    [valid |-> FALSE, pre |-> GameState, text |-> "wait quietly", llm |-> NoOp,
     result |-> NoResult]

\* ui_server.py lines 243-267 and escape_castle.py lines 2079-2094: the one-shot intro markers
append_room_entry_text(s) ==
    CASE s.current_room = "coal_01" -> [s EXCEPT !.flags_coal.coal_intro_shown = TRUE]
      [] s.current_room = "hall_01" -> [s EXCEPT !.flags_hall.hall_intro_shown = TRUE]
      [] s.current_room = "courtyard_01" -> [s EXCEPT !.flags_courtyard.courtyard_intro_shown = TRUE]
      [] OTHER -> s

Init ==
    /\ state = GameState
    /\ last = Idle
    /\ driver = "web"
    /\ running = TRUE
    /\ over = FALSE
    /\ history = 0
    /\ req = [h \in Handlers |-> IdleReq]
    /\ SESSION_STARTED = FALSE
    /\ emitted = NoEmissions

\* ui_server.act, lines 692-736: a request's turn up to the result
Act(t, llm) ==
    /\ ~last.valid
    /\ LET s0 == sync_flags_with_items(state)
           r == validate_and_apply(s0, llm, t)
           s1 == IF r.result.room_transition # None THEN append_room_entry_text(r.state) ELSE r.state
       IN  /\ state' = s1
           /\ last' = [valid |-> TRUE, pre |-> state, text |-> t, llm |-> llm, result |-> r.result]
    /\ UNCHANGED session
    /\ UNCHANGED shown

\* ui_server.act, lines 738-751: the response is returned; the handler waits again
Respond ==
    /\ last.valid
    /\ last' = Idle
    /\ UNCHANGED <<state, session>>
    /\ UNCHANGED shown

Next ==
    \/ \E in \in Inputs(state.current_room) : Act(in[1], in[2])
    \/ Respond

Spec == Init /\ [][Next]_vars

\* ---- a session whose proposals are all the no-op ----
\* One turn as in Act, with the proposal NoOp, taken only while the session
\* lasts: a turn that leaves hp <= 0 or returns game_won ends it (main, lines
\* 2200-2218).
Quiet(t) ==
    /\ ~over
    /\ ~last.valid
    /\ LET s0 == sync_flags_with_items(state)
           r == validate_and_apply(s0, NoOp, t)
           s1 == IF r.result.room_transition # None THEN append_room_entry_text(r.state) ELSE r.state
       IN  /\ state' = s1
           /\ last' = [valid |-> TRUE, pre |-> state, text |-> t, llm |-> NoOp, result |-> r.result]
           /\ over' = (s1.hp <= 0 \/ r.result.game_won)
    /\ UNCHANGED <<driver, running, history, req>>
    /\ UNCHANGED shown

NextQuiet ==
    \/ \E t \in RoomTexts(state.current_room) : Quiet(t)
    \/ Respond

SpecQuiet == Init /\ [][NextQuiet]_vars


\* ---- the session, request by request ----
\* A request is a turn in progress: the prompt is built from the state (after
\* sync_flags_with_items), chat_json posts to the generative service, and the
\* parsed proposal is applied.  In the web server each /act request runs on a
\* handler thread of its own over the one global STATE and CLIENT.

\* the longest history a session of the model builds
MaxHistory == 6

\* the player texts and proposals of the session model
SessionTexts == {"wait quietly", "look under the straw bed"}
SessionProposals == {NoOp, LLMResult(2, 0, {}, {}, "stay")}

\* what the generative service answers to a request
Responses == {"parsed", "unparseable", "transport"}

\* first_response that re-asks after any failed first response
first_response_reask_any(r, o) ==
    CASE o = "parsed" -> [r EXCEPT !.resp1 = o, !.appended = TRUE, !.pc = "apply"]
      [] OTHER -> [r EXCEPT !.resp1 = o, !.sent = 2, !.pc = "await2"]

\* chat_json lines 525-556: the first response
first_response(r, o) ==
    CASE o = "parsed" -> [r EXCEPT !.resp1 = o, !.appended = TRUE, !.pc = "apply"]
      [] o = "unparseable" -> [r EXCEPT !.resp1 = o, !.sent = 2, !.pc = "await2"]
      [] OTHER -> [r EXCEPT !.resp1 = o, !.pc = "failed"]

\* chat_json lines 541-556: the response to the strict re-ask
second_response(r, o) ==
    CASE o = "parsed" -> [r EXCEPT !.resp2 = o, !.appended = TRUE, !.pc = "apply"]
      [] OTHER -> [r EXCEPT !.resp2 = o, !.pc = "failed"]

\* main lines 2117-2143, ui_server.act lines 693-725, chat_json lines 508-525:
\* the action arrives, the flags are synced, the prompt is built from the state,
\* the first request is posted
Receive(h, t) ==
    /\ req[h].pc = "idle"
    /\ driver = "main" => (h = 1 /\ running)
    /\ history < MaxHistory
    /\ LET s0 == sync_flags_with_items(state)
       IN  /\ state' = s0
           /\ req' = [req EXCEPT ![h] = [IdleReq EXCEPT !.pc = "await1", !.text = t,
                                                        !.state0 = state, !.seen = s0,
                                                        !.sent = 1]]
    /\ UNCHANGED <<last, driver, running, over, history>>
    /\ UNCHANGED shown

\* chat_json lines 525-556: the first response arrives
Response1(h, o, llm) ==
    /\ req[h].pc = "await1"
    /\ LET r == first_response(req[h], o)
       IN  /\ req' = [req EXCEPT ![h] = [r EXCEPT !.llm = IF o = "parsed" THEN llm ELSE NoOp]]
           /\ history' = IF r.appended THEN history + 1 ELSE history
    /\ UNCHANGED <<state, last, driver, running, over>>
    /\ UNCHANGED shown

\* chat_json lines 541-556: the second response arrives
Response2(h, o, llm) ==
    /\ req[h].pc = "await2"
    /\ LET r == second_response(req[h], o)
       IN  /\ req' = [req EXCEPT ![h] = [r EXCEPT !.llm = IF o = "parsed" THEN llm ELSE NoOp]]
           /\ history' = IF r.appended THEN history + 1 ELSE history
    /\ UNCHANGED <<state, last, driver, running, over>>
    /\ UNCHANGED shown

\* main lines 2177-2218 returns after a turn that kills or wins;
\* ui_server.act lines 726-751 has no such test
ends_session(d, hp, game_won) ==
    d = "main" /\ (hp <= 0 \/ game_won)

\* main lines 2177-2218, ui_server.act lines 726-733: the proposal is applied
Apply(h) ==
    /\ req[h].pc = "apply"
    /\ LET r == validate_and_apply(state, req[h].llm, req[h].text)
           dead == r.state.hp <= 0
           s1 == IF r.result.room_transition # None /\ ~(driver = "main" /\ dead)
                 THEN append_room_entry_text(r.state) ELSE r.state
       IN  /\ state' = s1
           /\ req' = [req EXCEPT ![h].pc = "done", ![h].pre = state]
           /\ over' = (over \/ dead \/ r.result.game_won)
           /\ running' = (running /\ ~ends_session(driver, r.state.hp, r.result.game_won))
    /\ UNCHANGED <<last, driver, history>>
    /\ UNCHANGED shown

\* the turn is reported (main lines 2173-2175 `continue`, the end of the loop
\* body; ui_server.act line 738 or the error response): the handler is free again
Finish(h) ==
    /\ req[h].pc \in {"done", "failed"}
    /\ req' = [req EXCEPT ![h] = IdleReq]
    /\ UNCHANGED <<state, last, driver, running, over, history>>
    /\ UNCHANGED shown

SessionInit ==
    /\ state = GameState
    /\ last = Idle
    /\ driver \in {"main", "web"}
    /\ running = TRUE
    /\ over = FALSE
    /\ history = 0
    /\ req = [h \in Handlers |-> IdleReq]
    /\ SESSION_STARTED = FALSE
    /\ emitted = NoEmissions

SessionNext ==
    \/ \E h \in Handlers, t \in SessionTexts : Receive(h, t)
    \/ \E h \in Handlers, o \in Responses, llm \in SessionProposals : Response1(h, o, llm)
    \/ \E h \in Handlers, o \in Responses, llm \in SessionProposals : Response2(h, o, llm)
    \/ \E h \in Handlers : Apply(h)
    \/ \E h \in Handlers : Finish(h)

SpecSession == SessionInit /\ [][SessionNext]_vars

\* ---- the proposal as the generative service sends it ----
\* A JSON value as json.loads builds it: its kind, its number (a bool is the
\* number 0 or 1), its string (the key, for an entry of an object), and its
\* members (the elements of an array, the entries of an object, the value of
\* an entry).  Python's None is the null value.

J(kind, num, str, items) == [kind |-> kind, num |-> num, str |-> str, items |-> items]
JNull == J("null", 0, "", <<>>)
JBool(b) == J("bool", IF b THEN 1 ELSE 0, "", <<>>)
JNum(n) == J("number", n, "", <<>>)
JStr(s) == J("string", 0, s, <<>>)
JArr(items) == J("array", 0, "", items)
JEntry(k, v) == J("entry", 0, k, <<v>>)
JObj(entries) == J("object", 0, "", entries)

\* the strings int() reads as a number
Numerals == [s \in {"0", "2", "-5", "3"} |-> CASE s = "0" -> 0 [] s = "2" -> 2 [] s = "-5" -> 0 - 5 [] OTHER -> 3]

\* Python's truth value of a JSON value
Truthy(v) ==
    CASE v.kind = "null" -> FALSE
      [] v.kind \in {"bool", "number"} -> v.num # 0
      [] v.kind = "string" -> v.str # ""
      [] OTHER -> v.items # <<>>

\* dict.get(key, default): the value of the last entry with that key
Get(raw, key, default) ==
    LET at == {i \in DOMAIN raw.items : raw.items[i].str = key}
    IN  IF at = {} THEN default
        ELSE raw.items[CHOOSE i \in at : \A j \in at : j <= i].items[1]

\* lines 876-885: int(x or 0) inside try/except, 0 when int() raises
IntOrZero(x) ==
    LET v == IF Truthy(x) THEN x ELSE JNum(0)
    IN  CASE v.kind \in {"number", "bool"} -> v.num
          [] v.kind = "string" /\ v.str \in DOMAIN Numerals -> Numerals[v.str]
          [] OTHER -> 0

\* lines 887-903: a dict gives its keys with a true value, a list gives its
\* elements whatever they are, anything else gives the empty list
ListOf(x) ==
    CASE x.kind = "object" ->
             LET keep == {i \in DOMAIN x.items : Truthy(Get(x, x.items[i].str, JNull))
                                                 /\ \A j \in DOMAIN x.items :
                                                        x.items[j].str = x.items[i].str => j >= i}
                 F[i \in 0..Len(x.items)] ==
                     IF i = 0 THEN <<>>
                     ELSE IF i \in keep THEN Append(F[i - 1], JStr(x.items[i].str)) ELSE F[i - 1]
             IN  F[Len(x.items)]
      [] x.kind = "array" -> x.items
      [] OTHER -> <<>>

\* strip_code_fences and parse_llm_json, lines 50-77: what the service wrote
\* is a JSON text, a JSON text inside a code fence, a JSON text inside prose
\* (there the text from the first "{" to the last "}" is parsed: an object is
\* found, and so is the one object among the elements of an array), or no
\* JSON at all
Forms == {"json", "fenced", "prose", "garbage"}

parse_llm_json(form, value) ==
    LET objects == {i \in DOMAIN value.items : value.items[i].kind = "object"}
    IN  CASE form \in {"json", "fenced"} -> value
          [] form = "prose" /\ value.kind = "object" -> value
          [] form = "prose" /\ value.kind = "array" /\ Cardinality(objects) = 1 ->
                 value.items[CHOOSE i \in objects : TRUE]
          [] OTHER -> JNull

\* lines 872-911: raw.get raises AttributeError unless raw is a dict
coerce_llm_result(raw) ==
    IF raw.kind # "object"
    THEN [raised |-> "AttributeError", noise_level |-> 0, hp_delta |-> 0,
          events |-> <<>>, flags_set |-> <<>>, progression |-> ""]
    ELSE LET prog_raw == Get(raw, "progression", JStr(""))
         IN  [raised |-> None,
              noise_level |-> IntOrZero(Get(raw, "noise_level", JNum(0))),
              hp_delta |-> IntOrZero(Get(raw, "hp_delta", JNum(0))),
              events |-> ListOf(Get(raw, "events", JArr(<<>>))),
              flags_set |-> ListOf(Get(raw, "flags_set", JArr(<<>>))),
              progression |-> IF prog_raw.kind = "string" THEN prog_raw.str ELSE ""]

\* a list or a dict has no hash: `x in a_set` raises TypeError for it
Hashable(v) == v.kind \notin {"array", "object"}

\* the strings among the elements of a list
Strings(items) == {items[i].str : i \in {j \in DOMAIN items : items[j].kind = "string"}}

\* lines 1029-1036: `f in allowed_flags` and `e in ALLOWED_EVENTS` hash every
\* element of the proposal's lists
membership_raises(llm) ==
    \E i \in DOMAIN llm.flags_set \cup DOMAIN llm.events :
        \/ i \in DOMAIN llm.flags_set /\ ~Hashable(llm.flags_set[i])
        \/ i \in DOMAIN llm.events /\ ~Hashable(llm.events[i])

\* ---- a session whose service answers with any JSON value ----
\* One request at a time: the action arrives and the flags are synced, the
\* service's answer is parsed by chat_json, coerced and applied.

\* the longest list the service writes
MaxItems == 2

\* the elements the service puts into events and flags_set
ListElements ==
    {JStr("straw_rummaged"), JStr("pull_lever"), JStr("found_loose_stone"), JStr("fly"),
     JNum(3), JNull, JArr(<<JStr("pull_lever")>>), JObj(<<JEntry("found_loose_stone", JBool(TRUE))>>)}

Lists == UNION {[1..n -> ListElements] : n \in 0..MaxItems}

\* what the service writes for a number
NumberValues ==
    {JNum(0), JNum(2), JNum(0 - 30), JStr("2"), JStr("-5"), JStr("loud"), JStr(""), JBool(TRUE),
     JNull, JArr(<<JNum(2)>>), JObj(<<>>)}

\* what the service writes for events and flags_set
ListValues ==
    {JArr(l) : l \in Lists}
    \cup {JObj(<<JEntry("straw_rummaged", JBool(TRUE)), JEntry("pull_lever", JNum(0))>>),
          JObj(<<JEntry("found_loose_stone", JStr("yes")), JEntry("found_loose_stone", JNull)>>),
          JStr("pull_lever"), JNum(7), JNull}

ProgressionValues == {JStr("stay"), JStr("coal_01"), JNum(1), JNull, JArr(<<JStr("coal_01")>>)}

\* the JSON values of the service's answers
ServiceValues ==
    {JNull, JBool(TRUE), JBool(FALSE), JNum(0), JNum(42), JStr(""), JStr("hello"),
     JArr(<<>>), JArr(<<JNum(1), JNum(2)>>), JArr(<<JObj(<<>>)>>), JObj(<<>>)}
    \cup {JObj(<<JEntry(k, v)>>) : k \in {"noise_level", "hp_delta"}, v \in NumberValues}
    \cup {JObj(<<JEntry(k, v)>>) : k \in {"events", "flags_set"}, v \in ListValues}
    \cup {JObj(<<JEntry("progression", v)>>) : v \in ProgressionValues}
    \cup {JObj(<<JEntry("noise_level", JStr("2")), JEntry("events", JArr(<<e>>)),
                 JEntry("narration", JNum(1))>>) : e \in ListElements}

\* a handler with no request, in this session
CoerceIdle ==
    [pc |-> "idle", text |-> "wait quietly", raw |-> JNull, llm |-> coerce_llm_result(JObj(<<>>)),
     raised |-> None, pre |-> GameState]

\* main lines 2117-2176, ui_server.act lines 693-725, chat_json lines 508-558:
\* the action arrives, the flags are synced, and chat_json returns the value
\* it parsed from the service's answer (None makes chat_json re-ask or raise:
\* that path is SpecSession's)
Ask(h, t, form, value) ==
    /\ req[h].pc = "idle"
    /\ running
    /\ history < MaxHistory
    /\ parse_llm_json(form, value) # JNull
    /\ state' = sync_flags_with_items(state)
    /\ req' = [req EXCEPT ![h] = [CoerceIdle EXCEPT !.pc = "coerce", !.text = t,
                                                    !.raw = parse_llm_json(form, value)]]
    /\ history' = history + 1
    /\ UNCHANGED <<last, driver, running, over>>
    /\ UNCHANGED shown

\* main line 2178, ui_server.act line 726
Coerce(h) ==
    /\ req[h].pc = "coerce"
    /\ LET llm == coerce_llm_result(req[h].raw)
       IN  req' = [req EXCEPT ![h].llm = llm, ![h].raised = llm.raised,
                              ![h].pc = IF llm.raised # None THEN "raised" ELSE "validate"]
    /\ UNCHANGED <<state, last, driver, running, over, history>>
    /\ UNCHANGED shown

\* main lines 2179-2218, ui_server.act lines 727-733: the proposal is applied,
\* unless the membership tests of lines 1029-1036 raise
Validate(h) ==
    /\ req[h].pc = "validate"
    /\ IF membership_raises(req[h].llm)
       THEN /\ req' = [req EXCEPT ![h].pc = "raised", ![h].raised = "TypeError"]
            /\ UNCHANGED <<state, running, over>>
       ELSE LET p == req[h].llm
                r == validate_and_apply(state,
                                        LLMResult(p.noise_level, p.hp_delta, Strings(p.events),
                                                  Strings(p.flags_set), p.progression),
                                        req[h].text)
                dead == r.state.hp <= 0
                s1 == IF r.result.room_transition # None /\ ~(driver = "main" /\ dead)
                      THEN append_room_entry_text(r.state) ELSE r.state
            IN  /\ state' = s1
                /\ req' = [req EXCEPT ![h].pc = "done", ![h].pre = state]
                /\ over' = (over \/ dead \/ r.result.game_won)
                /\ running' = (running /\ ~ends_session(driver, r.state.hp, r.result.game_won))
    /\ UNCHANGED <<last, driver, history>>
    /\ UNCHANGED shown

\* the turn is reported and the handler is free again
Reported(h) ==
    /\ req[h].pc = "done"
    /\ req' = [req EXCEPT ![h] = CoerceIdle]
    /\ UNCHANGED <<state, last, driver, running, over, history>>
    /\ UNCHANGED shown

\* the exception leaves the driver: main has no handler around lines 2178-2179
\* and the program ends with a traceback; Flask answers the request of
\* ui_server.act with an internal server error and serves on
Propagate(h) ==
    /\ req[h].pc = "raised"
    /\ running
    /\ IF driver = "main"
       THEN running' = FALSE /\ UNCHANGED req
       ELSE req' = [req EXCEPT ![h] = CoerceIdle] /\ UNCHANGED running
    /\ UNCHANGED <<state, last, driver, over, history>>
    /\ UNCHANGED shown

CoerceInit ==
    /\ state = GameState
    /\ last = Idle
    /\ driver \in {"main", "web"}
    /\ running = TRUE
    /\ over = FALSE
    /\ history = 0
    /\ req = [h \in {1} |-> CoerceIdle]
    /\ SESSION_STARTED = FALSE
    /\ emitted = NoEmissions

CoerceNext ==
    \/ \E t \in SessionTexts, form \in Forms, value \in ServiceValues : Ask(1, t, form, value)
    \/ Coerce(1)
    \/ Validate(1)
    \/ Reported(1)
    \/ Propagate(1)

SpecCoerce == CoerceInit /\ [][CoerceNext]_vars

\* ---- a session, step by step through the welcome and the room entries ----
\* The turns are taken with the no-op proposal.  A turn's engine call is one
\* step; what follows a room transition (append_room_entry_text in the web
\* server, print_room_intro_if_needed in the terminal) tests the room's marker
\* and then writes it, and so does /state with SESSION_STARTED: between the
\* test and the write another handler thread of the web server may run.

\* the player texts of this session
IntroTexts ==
    {"wait quietly", "search the straw, lift the stone and crawl into the hole",
     "crawl into the hole", "return to the cell"}

\* a handler with no request, in this session
IntroIdle == [pc |-> "idle", room |-> "cell_01"]

\* the marker of a room (the cell has none)
intro_shown(s, room) ==
    CASE room = "coal_01" -> s.flags_coal.coal_intro_shown
      [] room = "hall_01" -> s.flags_hall.hall_intro_shown
      [] room = "courtyard_01" -> s.flags_courtyard.courtyard_intro_shown
      [] OTHER -> TRUE

\* main lines 2099-2106: the welcome is printed before the loop
MainStart ==
    /\ driver = "main"
    /\ req[1].pc = "start"
    /\ emitted' = [emitted EXCEPT !.welcome = @ + 1]
    /\ req' = [req EXCEPT ![1].pc = "idle"]
    /\ UNCHANGED <<state, last, driver, running, over, history, SESSION_STARTED>>

\* ui_server.get_state lines 664-669: the flags are synced and SESSION_STARTED
\* is tested
GetState(h) ==
    /\ driver = "web"
    /\ req[h].pc = "idle"
    /\ state' = sync_flags_with_items(state)
    /\ req' = [req EXCEPT ![h].pc = IF SESSION_STARTED THEN "idle" ELSE "welcome"]
    /\ UNCHANGED <<last, driver, running, over, history, SESSION_STARTED, emitted>>

\* ui_server.get_state lines 670-672: SESSION_STARTED is set and the welcome
\* is written, followed by the entry text of the current room
Welcome(h) ==
    /\ req[h].pc = "welcome"
    /\ SESSION_STARTED' = TRUE
    /\ emitted' = [emitted EXCEPT !.welcome = @ + 1]
    /\ req' = [req EXCEPT ![h].pc = "entry"]
    /\ UNCHANGED <<state, last, driver, running, over, history>>

\* main lines 2117-2213, ui_server.act lines 693-730: a turn up to the room
\* transition
Turn(h, t) ==
    /\ req[h].pc = "idle"
    /\ driver = "main" => (h = 1 /\ running)
    /\ LET r == validate_and_apply(sync_flags_with_items(state), NoOp, t)
           dead == r.state.hp <= 0
       IN  /\ state' = r.state
           /\ req' = [req EXCEPT ![h].pc = IF r.result.room_transition # None
                                              /\ ~(driver = "main" /\ dead)
                                           THEN "entry" ELSE "idle"]
           /\ over' = (over \/ dead \/ r.result.game_won)
           /\ running' = (running /\ ~ends_session(driver, r.state.hp, r.result.game_won))
    /\ UNCHANGED <<last, driver, history, shown>>

\* ui_server.append_room_entry_text lines 245-263, print_room_intro_if_needed
\* lines 2081-2092: the marker of the current room is tested
TestMarker(h) ==
    /\ req[h].pc = "entry"
    /\ req' = [req EXCEPT ![h].room = state.current_room,
                          ![h].pc = IF intro_shown(state, state.current_room)
                                    THEN "idle" ELSE "intro"]
    /\ UNCHANGED <<state, last, driver, running, over, history, shown>>

\* ui_server.append_room_entry_text lines 252-265, print_room_intro_if_needed
\* lines 2082-2094: the long introduction is written (the terminal writes a
\* short line instead when the coal cellar is lit) and the marker is set
Introduce(h) ==
    /\ req[h].pc = "intro"
    /\ LET room == req[h].room
           short == driver = "main" /\ room = "coal_01" /\ torch_light_present_here(state)
       IN  /\ emitted' = IF short THEN emitted ELSE [emitted EXCEPT ![room] = @ + 1]
           /\ state' = CASE room = "coal_01" -> [state EXCEPT !.flags_coal.coal_intro_shown = TRUE]
                         [] room = "hall_01" -> [state EXCEPT !.flags_hall.hall_intro_shown = TRUE]
                         [] OTHER -> [state EXCEPT !.flags_courtyard.courtyard_intro_shown = TRUE]
    /\ req' = [req EXCEPT ![h].pc = "idle"]
    /\ UNCHANGED <<last, driver, running, over, history, SESSION_STARTED>>

IntroInit ==
    /\ state = GameState
    /\ last = Idle
    /\ driver \in {"main", "web"}
    /\ running = TRUE
    /\ over = FALSE
    /\ history = 0
    /\ req = [h \in Handlers |->
                 [IntroIdle EXCEPT !.pc = IF driver = "main" /\ h = 1 THEN "start" ELSE "idle"]]
    /\ SESSION_STARTED = FALSE
    /\ emitted = NoEmissions

IntroNext ==
    \/ MainStart
    \/ \E h \in Handlers : GetState(h)
    \/ \E h \in Handlers : Welcome(h)
    \/ \E h \in Handlers, t \in IntroTexts : Turn(h, t)
    \/ \E h \in Handlers : TestMarker(h)
    \/ \E h \in Handlers : Introduce(h)

SpecIntro == IntroInit /\ [][IntroNext]_vars

\* ======================================================================
\* Properties.  A state with last.valid is the state right after a turn:
\* last.pre is the GameState the turn started from, last.text and last.llm
\* its inputs, last.result what validate_and_apply returned, and state the
\* GameState it left.
\* ======================================================================

Held(s) == {i \in {"torch", "keys", "crossbow"} : s.items[i].location = "player"}

\* the movement event of an edge of ROOM_GRAPH
EdgeEvent(from, to) ==
    CASE from = "cell_01" /\ to = "coal_01" -> "enter_coal_cellar"
      [] from = "coal_01" /\ to = "cell_01" -> "return_to_cell"
      [] from = "coal_01" /\ to = "hall_01" -> "open_hall_door"
      [] from = "hall_01" /\ to = "coal_01" -> "return_to_coal"
      [] from = "hall_01" /\ to = "courtyard_01" -> "unlock_courtyard_door"
      [] OTHER -> "no_such_edge"

\* C1: after every turn, from any reachable state and for any proposal and
\* player text, 0 <= hp <= 100.
HpInRange == state.hp >= 0 /\ state.hp <= 100

\* C1 witness: a turn whose enforced hp_delta exceeded the hp that was left,
\* and hp was clipped at 0.
HpClippedAtZero ==
    /\ last.valid
    /\ last.pre.hp > 0
    /\ last.pre.hp + last.result.applied_hp_delta < 0
    /\ state.hp = 0

\* C2: in every reachable state stone_moved is true only if found_loose_stone
\* is true, and entered_hole is true only if stone_moved is true, whatever
\* flags and events the proposals requested.
CellFlagsOrdered ==
    /\ state.flags_cell.stone_moved => state.flags_cell.found_loose_stone
    /\ state.flags_cell.entered_hole => state.flags_cell.stone_moved

\* C2 witness: a turn in the cell whose proposal requested stone_moved (as a
\* flag or through the stone_lifted event) while found_loose_stone was false,
\* and stone_moved stayed false.
StoneMovedRequestDropped ==
    /\ last.valid
    /\ last.pre.current_room = "cell_01"
    /\ ~last.pre.flags_cell.found_loose_stone
    /\ ("stone_moved" \in last.llm.flags_set \/ "stone_lifted" \in last.llm.events)
    /\ ~state.flags_cell.found_loose_stone
    /\ ~state.flags_cell.stone_moved

\* C3: in every reachable state at most one of torch, keys and crossbow has
\* location "player", also after turns whose events hold several pickups.
AtMostOneHeld == Cardinality(Held(state)) <= 1

\* C3 witness: a turn that started with the torch in hand and the keys lying in
\* the room, whose events asked to pick up the keys, and which left the torch
\* in hand and the keys where they were.
SecondPickupRefused ==
    /\ last.valid
    /\ last.pre.current_room = "hall_01"
    /\ last.pre.items.torch.location = "player"
    /\ last.pre.items.keys.location = "hall_01"
    /\ "pickup_keys" \in last.result.events
    /\ "hands_full" \in last.result.notes
    /\ Held(state) = {"torch"}

\* C4: a room change committed by a turn goes to a room adjacent in ROOM_GRAPH,
\* and only with the edge's prerequisite satisfied: cell -> coal cellar needs
\* stone_moved, coal cellar -> hall needs torchlight present in the coal cellar
\* (the torch lit, and carried or lying in the cellar), hall -> courtyard needs
\* the keys held when the door is unlocked; otherwise the room is unchanged.
RoomChangeGated ==
    last.valid =>
        LET from == last.pre.current_room
            to == state.current_room
        IN  /\ last.result.room_transition = (IF to # from THEN to ELSE None)
            /\ to # from =>
                 /\ to \in ROOM_GRAPH[from]
                 /\ (from = "cell_01" /\ to = "coal_01") => state.flags_cell.stone_moved
                 /\ (from = "coal_01" /\ to = "hall_01") =>
                        /\ state.items.torch.lit
                        /\ state.items.torch.location \in {"player", "coal_01"}
                 /\ (from = "hall_01" /\ to = "courtyard_01") =>
                        last.pre.items.keys.location = "player"

\* C4 witness: the player asked to crawl into the hole before stone_moved and
\* stayed in the cell.
CrawlDeniedBeforeStoneMoved ==
    /\ last.valid
    /\ last.pre.current_room = "cell_01"
    /\ infer_move_event("cell_01", last.text) = "enter_coal_cellar"
    /\ ~state.flags_cell.stone_moved
    /\ state.current_room = "cell_01"
    /\ last.result.room_transition = None

\* C5: a turn changes the room only if infer_move_event, on the player's text
\* in the room the turn started in, derives the movement event of that edge;
\* a movement event or progression value present only in the proposal never
\* moves the player.
MoveOnlyOnPlayerIntent ==
    (last.valid /\ state.current_room # last.pre.current_room) =>
        infer_move_event(last.pre.current_room, last.text)
            = EdgeEvent(last.pre.current_room, state.current_room)

\* C6: in the cell, a turn with clamped noise >= 2 yields hp_delta = -20 and
\* the guard_punishes event whatever the proposal carried (hp drops by exactly
\* 20 when it was at least 20); a turn with noise < 2 yields hp_delta = 0 and
\* no guard_punishes event.
CellNoisePolicy ==
    (last.valid /\ last.pre.current_room = "cell_01") =>
        LET noise == Max(0, Min(3, last.llm.noise_level))
        IN  /\ last.result.applied_noise = noise
            /\ noise >= 2 =>
                 /\ last.result.applied_hp_delta = -20
                 /\ "guard_punishes" \in last.result.events
                 /\ last.pre.hp >= 20 => state.hp = last.pre.hp - 20
            /\ noise < 2 =>
                 /\ last.result.applied_hp_delta = 0
                 /\ "guard_punishes" \notin last.result.events
                 /\ state.hp = last.pre.hp

\* C6 witness: a noisy turn in the cell whose proposal carried another
\* hp_delta and no guard_punishes event, and which cost exactly 20 hp.
NoisyCellTurnOverridesProposal ==
    /\ last.valid
    /\ last.pre.current_room = "cell_01"
    /\ last.llm.noise_level >= 2
    /\ last.llm.hp_delta # -20
    /\ "guard_punishes" \notin last.llm.events
    /\ last.pre.hp >= 20
    /\ state.hp = last.pre.hp - 20

\* C7: in the coal cellar with no torchlight present, a turn whose text
\* expresses moving deeper (not a local grope or pickup, not a return to the
\* cell) ends, for every proposal, with dark_stumble among its events,
\* hp_delta = -10 and the room unchanged.
DeeperInDarkStumbles ==
    ( /\ last.valid
      /\ last.pre.current_room = "coal_01"
      /\ ~torch_light_present_here(last.pre)
      /\ Has(last.text, "MOVE_DEEPER_RE")
      /\ ~Has(last.text, "LOCAL_PROBE")
      /\ infer_move_event("coal_01", last.text) # "return_to_cell" ) =>
        /\ "dark_stumble" \in last.result.events
        /\ last.result.applied_hp_delta = -10
        /\ state.current_room = "coal_01"

\* C8: in the coal cellar, a turn in which the player returns toward the cell
\* (return_to_cell among the turn's events) never stumbles: no dark_stumble in
\* the final events and hp_delta = 0, with or without light and whatever
\* events the proposal carried.
ReturnNeverStumbles ==
    ( /\ last.valid
      /\ last.pre.current_room = "coal_01"
      /\ "return_to_cell" \in last.result.events ) =>
        /\ "dark_stumble" \notin last.result.events
        /\ last.result.applied_hp_delta = 0

\* C9: in the hall, a turn with noise >= 2 while knight_knocked_out is false
\* sets knight_knocked_out and costs 30 hp if the torch was held at the start
\* of the turn, else 50; knight_knocked_out never becomes false again; once it
\* is true no turn in the hall costs hp or keeps knight_notice or
\* combat_knock_guard in its final events.
KnightOnce ==
    last.valid =>
        /\ last.pre.flags_hall.knight_knocked_out => state.flags_hall.knight_knocked_out
        /\ last.pre.current_room = "hall_01" =>
             LET noise == Max(0, Min(3, last.llm.noise_level))
                 out_before == last.pre.flags_hall.knight_knocked_out
             IN  /\ (noise >= 2 /\ ~out_before) =>
                       /\ state.flags_hall.knight_knocked_out
                       /\ last.result.applied_hp_delta =
                              IF last.pre.items.torch.location = "player" THEN -30 ELSE -50
                 /\ out_before =>
                       /\ last.result.applied_hp_delta = 0
                       /\ state.hp = last.pre.hp
                       /\ last.result.events \cap {"knight_notice", "combat_knock_guard"} = {}

\* C9 witness: the knight hears a player who held the torch at the start of
\* the turn and dropped it in the same turn; the cost is 30.
KnightFightWithTorchDropped ==
    /\ last.valid
    /\ last.pre.current_room = "hall_01"
    /\ ~last.pre.flags_hall.knight_knocked_out
    /\ last.llm.noise_level >= 2
    /\ last.pre.items.torch.location = "player"
    /\ state.items.torch.location = "hall_01"
    /\ state.flags_hall.knight_knocked_out
    /\ last.result.applied_hp_delta = -30

\* the turn's pull_lever was processed at the tower top: the event survived,
\* and the player ended the turn at the top or jumped from it
LeverPulledAtTop ==
    /\ "pull_lever" \in last.result.events
    /\ \/ state.flags_courtyard.at_tower_top
       \/ "jump_into_moat" \in last.result.events

\* C10: in the courtyard the gate is lowered and guards arrive only through a
\* pull_lever processed at the tower top; a pull_lever from the ground changes
\* neither the gate nor the guards; pulling again once the gate is lowered
\* leaves gate_lowered, guards_present and guards_remaining unchanged (only
\* shooting lowers the guards), so no guards are summoned a second time.
LeverOnlyFromTopAndOnce ==
    (last.valid /\ last.pre.current_room = "courtyard_01") =>
        LET f0 == last.pre.flags_courtyard
            f1 == state.flags_courtyard
            fresh == ~f0.gate_lowered /\ LeverPulledAtTop
            shot == "shoot_guard" \in last.result.events
        IN  /\ f0.gate_lowered => f1.gate_lowered
            /\ (f1.gate_lowered /\ ~f0.gate_lowered) => LeverPulledAtTop
            /\ (f1.guards_remaining > f0.guards_remaining) => fresh
            /\ (f1.guards_present /\ ~f0.guards_present) => fresh
            /\ "guards_arrive" \in last.result.events => fresh
            /\ (~fresh /\ ~shot) =>
                 /\ f1.gate_lowered = f0.gate_lowered
                 /\ f1.guards_present = f0.guards_present
                 /\ f1.guards_remaining = f0.guards_remaining

\* C10 witness: the lever is pulled again at the tower top after the gate was
\* lowered and all three guards were shot; no guards return.
LeverPulledAgainAfterGuardsShot ==
    /\ last.valid
    /\ last.pre.current_room = "courtyard_01"
    /\ last.pre.flags_courtyard.gate_lowered
    /\ ~last.pre.flags_courtyard.guards_present
    /\ last.pre.flags_courtyard.guards_remaining = 0
    /\ LeverPulledAtTop
    /\ ~state.flags_courtyard.guards_present
    /\ state.flags_courtyard.guards_remaining = 0

\* C11: a turn returns game_won = true only if the player is in the courtyard
\* and either cross_gate_bridge is among the events with the gate lowered and
\* the player on the grass (not at the tower top, not in the moat), or
\* swim_across is among the events with the player in the moat.
VictoryOnlyQualified ==
    (last.valid /\ last.result.game_won) =>
        LET fc == state.flags_courtyard
        IN  /\ last.pre.current_room = "courtyard_01"
            /\ state.current_room = "courtyard_01"
            /\ \/ /\ "cross_gate_bridge" \in last.result.events
                  /\ fc.gate_lowered
                  /\ ~fc.at_tower_top
                  /\ ~fc.in_moat
               \/ /\ "swim_across" \in last.result.events
                  /\ fc.in_moat

\* C11 witness: a turn won by crossing the lowered gate from the grass.
WonAcrossTheGate ==
    /\ last.valid
    /\ last.result.game_won
    /\ "cross_gate_bridge" \in last.result.events
    /\ state.flags_courtyard.gate_lowered
    /\ ~state.flags_courtyard.in_moat

\* C12: death and victory are terminal in both drivers: once a turn has left
\* hp <= 0 or returned game_won, no further turn is applied and the state is
\* never changed again.
TerminalIsFinal ==
    [][over => /\ state' = state
               /\ \A h \in Handlers : req'[h].pc = "done" => req[h].pc = "done"]_vars

\* C13: when the generative call of a turn fails, the turn ends with the state
\* exactly as it was when the action arrived and with nothing appended to the
\* history: the turn's own writes changed nothing, and in the terminal loop
\* (one turn at a time) the state is the one before the turn.
FailedTurnLeavesState ==
    \A h \in Handlers :
        req[h].pc = "failed" =>
            /\ req[h].seen = req[h].state0
            /\ ~req[h].appended
            /\ driver = "main" => state = req[h].state0

\* C14: per turn the client sends at most two requests; the second is sent
\* only after the first response failed to parse; when the second response
\* fails to parse too the turn fails; the exchange is appended to the history
\* only when a response was parsed.
AtMostOneReask ==
    \A h \in Handlers :
        LET r == req[h]
        IN  /\ r.sent <= 2
            /\ r.sent = 2 <=> r.resp1 = "unparseable"
            /\ r.resp2 # "none" => r.sent = 2
            /\ r.resp2 = "unparseable" => r.pc = "failed"
            /\ r.appended <=> "parsed" \in {r.resp1, r.resp2}
            /\ r.appended => r.pc \in {"apply", "done"}

\* C14 witness: a turn whose first response did not parse and whose second did.
ReaskParsed ==
    \E h \in Handlers :
        /\ req[h].resp1 = "unparseable"
        /\ req[h].resp2 = "parsed"
        /\ req[h].sent = 2
        /\ req[h].appended

\* C15: a transport failure of the first request, like a parse failure, is
\* answered by one retry; only a second failure fails the turn.
FirstFailureRetried ==
    \A h \in Handlers :
        /\ req[h].resp1 \in {"transport", "unparseable"} => req[h].sent = 2
        /\ req[h].pc = "failed" => req[h].resp2 \in {"transport", "unparseable"}

\* C16: no two turns run at once on the same state: while a request is between
\* its read of the state and the end of its validate_and_apply no other request
\* is in flight, so a proposal is applied to the state it was generated for.
OneTurnAtATime ==
    /\ \A h, k \in Handlers :
           (h # k /\ req[h].pc \in {"await1", "await2", "apply"}) => req[k].pc = "idle"
    /\ \A h \in Handlers : req[h].pc = "done" => req[h].pre = req[h].seen

\* C17: in every state where the session has not ended, a turn whose text is a
\* pure look and whose proposal is a no-op leaves the state as it was before
\* the turn.
LookNoOpIdempotent ==
    [][(/\ ~over
        /\ ~last.valid
        /\ last'.valid
        /\ last'.text = "look around"
        /\ last'.llm = NoOp) => state' = state]_vars

\* a turn taken in the cell before the loose stone was found, with a text that
\* mentions the straw and an applied noise below 2
StrawTurn ==
    /\ last.valid
    /\ last.pre.current_room = "cell_01"
    /\ ~last.pre.flags_cell.found_loose_stone
    /\ Has(last.text, "STRAW_RE")
    /\ last.result.applied_noise < 2

\* C18 as stated: such a turn ends with found_loose_stone true, hp unchanged
\* and no room transition, whatever the proposal.
StrawFindsStoneAndStays ==
    StrawTurn =>
        /\ state.flags_cell.found_loose_stone
        /\ state.hp = last.pre.hp
        /\ last.result.room_transition = None
        /\ state.current_room = "cell_01"

\* C18 amended: such a turn ends with found_loose_stone true and hp unchanged,
\* and it changes room only when the text itself also asks to go into the hole.
StrawFindsStone ==
    StrawTurn =>
        /\ state.flags_cell.found_loose_stone
        /\ state.hp = last.pre.hp
        /\ infer_move_event("cell_01", last.text) # "enter_coal_cellar" =>
               /\ last.result.room_transition = None
               /\ state.current_room = "cell_01"

\* C18 witness: the straw is searched with a proposal that asks for the next
\* room; the stone is found and the player stays in the cell.
StrawSearchedProposalIgnored ==
    /\ StrawTurn
    /\ last.text = "look under the straw bed"
    /\ last.llm.progression = "next_room"
    /\ state.flags_cell.found_loose_stone
    /\ state.current_room = "cell_01"

Items == {"torch", "keys", "crossbow"}

\* the context of the last turn after its drops, on entry to the pickups
LastAfterDrops ==
    ProcessDrops(BeforeDrops(sync_flags_with_items(last.pre), last.llm, last.text))

\* the turn asks to pick up item b
PickupAsked(c, b) ==
    CASE b = "torch" -> \/ "pickup_stick" \in c.events
                        \/ "pickup_torch" \in c.events
                        \/ "has_torch_stick" \in c.llm.flags_set
      [] b = "keys" -> "pickup_keys" \in c.events
      [] OTHER -> "pickup_crossbow" \in c.events

\* the drop event of item a
DropEvent(a) ==
    CASE a = "torch" -> "drop_torch" [] a = "keys" -> "drop_keys" [] OTHER -> "drop_crossbow"

\* item b lies where the player can take it: in the current room, the
\* crossbow at the player's elevation
WithinReach(s, b) ==
    IF b = "crossbow"
    THEN /\ s.current_room = "courtyard_01"
         /\ ~s.flags_courtyard.in_moat
         /\ s.items.crossbow.location =
                IF s.flags_courtyard.at_tower_top THEN "courtyard_tower_top" ELSE "courtyard_01"
    ELSE s.items[b].location = s.current_room

SameLocations(s1, s2) == \A i \in Items : s1.items[i].location = s2.items[i].location

\* C19: a pickup of item b is rejected when, after the turn's drops, the slot
\* is held by a different item or b is not within reach: b stays where it is,
\* and with the slot held no item moves; in particular a player who holds a
\* and drops nothing holds only a afterwards and no item has moved.
PickupRejected ==
    last.valid =>
        LET c == LastAfterDrops
        IN  \A b \in Items :
                (PickupAsked(c, b) /\ b \notin Held(c.state)) =>
                    /\ (Held(c.state) # {} \/ ~WithinReach(c.state, b)) =>
                           state.items[b].location = c.state.items[b].location
                    /\ Held(c.state) # {} => SameLocations(state, c.state)
                    /\ \A a \in Items \ {b} :
                           (Held(last.pre) = {a} /\ DropEvent(a) \notin c.events) =>
                               /\ Held(state) = {a}
                               /\ SameLocations(state, last.pre)

\* C19 witness: holding the keys in the hall, the player asks for the torch
\* that lies there and keeps only the keys.
PickupRefusedHandsFull ==
    /\ last.valid
    /\ Held(last.pre) = {"keys"}
    /\ last.pre.items.torch.location = last.pre.current_room
    /\ "pickup_torch" \in last.result.events
    /\ "drop_keys" \notin last.result.events
    /\ Held(state) = {"keys"}

\* the context of the last turn on entry to the drops
LastBeforeDrops ==
    BeforeDrops(sync_flags_with_items(last.pre), last.llm, last.text)

\* the last turn drops the held item x and asks for item y, which is within reach
DropThenPickup(x, y) ==
    /\ last.valid
    /\ x # y
    /\ Held(last.pre) = {x}
    /\ DropEvent(x) \in LastBeforeDrops.events
    /\ PickupAsked(LastBeforeDrops, y)
    /\ WithinReach(last.pre, y)

\* item x lies in room r (the tower top is part of the courtyard)
LiesIn(s, x, r) ==
    \/ s.items[x].location = r
    \/ r = "courtyard_01" /\ s.items[x].location = "courtyard_tower_top"

LastAfterPickups == ProcessPickups(LastAfterDrops)

\* C21: the torch goes from unlit to lit only in a turn played in the cell
\* with the torch in hand when light_torch is processed; in any other room,
\* or without the torch in hand, the turn does not light the torch and
\* light_torch is not among its final events.
LitOnlyInCellWhileHeld ==
    last.valid =>
        LET lit0 == last.pre.items.torch.lit
            lit1 == state.items.torch.lit
            held == LastAfterPickups.state.items.torch.location = "player"
        IN  /\ (~lit0 /\ lit1) =>
                   /\ last.pre.current_room = "cell_01"
                   /\ held
                   /\ "light_torch" \in last.result.events
            /\ (last.pre.current_room # "cell_01" \/ ~held) =>
                   /\ "light_torch" \notin last.result.events
                   /\ lit1 => lit0

\* C21 witness: the player holds the unlit torch in the coal cellar and asks
\* to light it; the torch stays unlit and the event is removed.
LightingDeniedOutsideCell ==
    /\ last.valid
    /\ last.pre.current_room = "coal_01"
    /\ "light_torch" \in LastAfterPickups.events
    /\ LastAfterPickups.state.items.torch.location = "player"
    /\ ~last.pre.items.torch.lit
    /\ ~state.items.torch.lit
    /\ "light_torch" \notin last.result.events

VictoryEvents == {"cross_gate_bridge", "swim_across"}

\* the victory events the last turn fires: those of the proposal and the one
\* the player's text stands for
FiredVictory ==
    (last.llm.events \cup {infer_move_event("courtyard_01", last.text)}) \cap VictoryEvents

\* the precondition of a victory event in state s
VictoryPrecondition(s, e) ==
    IF e = "swim_across" THEN s.flags_courtyard.in_moat
    ELSE /\ s.flags_courtyard.gate_lowered
         /\ ~s.flags_courtyard.in_moat
         /\ ~s.flags_courtyard.at_tower_top

\* the last turn was played in the courtyard and fired victory events and
\* nothing else, none of them with its precondition
DeniedVictoryTurn ==
    /\ last.valid
    /\ last.pre.current_room = "courtyard_01"
    /\ FiredVictory # {}
    /\ last.llm.events \subseteq VictoryEvents
    /\ last.llm.flags_set = {}
    /\ last.llm.progression = "stay"
    /\ infer_item_event(last.text) = None
    /\ infer_move_event("courtyard_01", last.text) \in VictoryEvents \cup {None}
    /\ \A e \in FiredVictory : ~VictoryPrecondition(last.pre, e)

\* the guards stand on the grass with the player
GuardsOnTheGrass(s) ==
    /\ ~s.flags_courtyard.at_tower_top
    /\ ~s.flags_courtyard.in_moat
    /\ s.flags_courtyard.guards_present
    /\ s.flags_courtyard.guards_remaining > 0

CoerceNeverRaises ==
    \A h \in DOMAIN req : req[h].pc \in {"validate", "done", "raised"} =>
        coerce_llm_result(req[h].raw).raised = None

\* C24 as stated: validate_and_apply returns an outcome, without raising, for
\* every proposal the coercer produces.
ValidateNeverRaises ==
    \A h \in DOMAIN req : req[h].pc = "raised" => req[h].raised # "TypeError"

\* the events of the torch, which the player carries from room to room
TorchEvents == {"pickup_stick", "pickup_torch", "drop_torch", "light_torch", "extinguish_torch"}

\* the events the engine acts on in each room: the catalog of the room
RoomCatalog(room) ==
    CASE room = "cell_01" ->
           {"straw_rummaged", "stone_lifted", "enter_coal_cellar", "guard_punishes"} \cup TorchEvents
      [] room = "coal_01" ->
           {"return_to_cell", "open_hall_door", "dark_stumble"} \cup TorchEvents
      [] room = "hall_01" ->
           {"return_to_coal", "unlock_courtyard_door", "knight_notice", "combat_knock_guard",
            "pickup_keys", "drop_keys"} \cup TorchEvents
      [] OTHER ->
           {"climb_ladder_up", "climb_ladder_down", "pull_lever", "guards_arrive",
            "pickup_crossbow", "drop_crossbow", "shoot_guard", "cross_gate_bridge",
            "jump_into_moat", "swim_across", "pickup_keys", "drop_keys"} \cup TorchEvents

\* C25 as stated: every event of the outcome's final event list belongs to
\* the catalog of the room the turn was played in.
FinalEventsInRoomCatalog ==
    last.valid => last.result.events \subseteq RoomCatalog(last.pre.current_room)

\* a turn played in the cell whose text mentions neither straw, hay nor bed
CellTurnWithoutStraw ==
    /\ last.valid
    /\ last.pre.current_room = "cell_01"
    /\ ~Has(last.text, "STRAW_RE")

\* C26: in the cell, a turn whose text does not mention straw, hay or bed has
\* no straw_rummaged in its final events and does not turn found_loose_stone
\* from false to true, whatever the proposal carries.
StrawNeedsMention ==
    CellTurnWithoutStraw =>
        /\ "straw_rummaged" \notin last.result.events
        /\ ~last.pre.flags_cell.found_loose_stone => ~state.flags_cell.found_loose_stone

\* C26 witness: the proposal carries straw_rummaged, or asks for
\* found_loose_stone, with a text about something else, and neither happens.
StrawProposalWithoutMention ==
    /\ CellTurnWithoutStraw
    /\ "straw_rummaged" \in last.llm.events \/ "found_loose_stone" \in last.llm.flags_set
    /\ ~last.pre.flags_cell.found_loose_stone
    /\ "straw_rummaged" \notin last.result.events
    /\ ~state.flags_cell.found_loose_stone

\* the two movements out of the coal cellar
CoalMoves == {"return_to_cell", "open_hall_door"}

\* a turn in the coal cellar whose events, the proposal's and the one derived
\* from the text, contain both movements
BothCoalMovesAsked ==
    /\ last.valid
    /\ last.pre.current_room = "coal_01"
    /\ CoalMoves \subseteq last.llm.events \cup {infer_move_event("coal_01", last.text)}

\* C27 as stated: of return_to_cell and open_hall_door at most one survives,
\* the one derived from the player's text; when neither is derived from the
\* text the room does not change.
CoalContradictionFollowsText ==
    BothCoalMovesAsked =>
        LET inferred == infer_move_event("coal_01", last.text)
        IN  /\ Cardinality(last.result.events \cap CoalMoves) <= 1
            /\ inferred \in CoalMoves => last.result.events \cap CoalMoves \subseteq {inferred}
            /\ inferred \notin CoalMoves => state.current_room = "coal_01"

\* the progress of a state: where the items are and whether the torch burns,
\* the progress flags, and the room
Progress(s) ==
    <<s.items, s.flags_cell.stone_moved, s.flags_cell.entered_hole,
      s.flags_courtyard.at_tower_top, s.flags_courtyard.gate_lowered, s.current_room>>

\* the state after the turn of text t and proposal llm played from state s
TurnFrom(s, llm, t) ==
    validate_and_apply(sync_flags_with_items(s), llm, t).state

\* C28 as stated: a turn from the same state with the same text, noise level
\* and hp_delta, whatever its events, flags_set and progression, ends with the
\* same items, progress flags and room.
ProposalCannotInventProgress ==
    last.valid =>
        \A i \in Inputs(last.pre.current_room) :
            (/\ i[1] = last.text
             /\ i[2].noise_level = last.llm.noise_level
             /\ i[2].hp_delta = last.llm.hp_delta)
            => Progress(TurnFrom(last.pre, i[2], last.text)) = Progress(state)

\* the flags of the per-room flag maps
FlagNames ==
    [flags_cell |-> {"found_loose_stone", "stone_moved", "entered_hole", "has_torch_stick", "torch_lit"},
     flags_coal |-> {"has_torch_stick", "torch_lit", "coal_intro_shown"},
     flags_hall |-> {"knight_knocked_out", "courtyard_door_unlocked", "hall_intro_shown"},
     flags_courtyard |-> {"at_tower_top", "gate_lowered", "guards_present", "in_moat",
                          "courtyard_intro_shown"}]

\* the flags that are true in state s, each with its map
TrueFlags(s) ==
    {<<m, f>> \in UNION {{m} \X FlagNames[m] : m \in DOMAIN FlagNames} : s[m][f]}

\* the flags that record what has been achieved or shown
PermanentFlags ==
    ({"flags_cell"} \X {"found_loose_stone", "stone_moved", "entered_hole"})
    \cup ({"flags_hall"} \X {"knight_knocked_out", "courtyard_door_unlocked", "hall_intro_shown"})
    \cup {<<"flags_coal", "coal_intro_shown">>, <<"flags_courtyard", "gate_lowered">>,
          <<"flags_courtyard", "courtyard_intro_shown">>}

Markers(s) ==
    <<s.flags_coal.coal_intro_shown, s.flags_hall.hall_intro_shown,
      s.flags_courtyard.courtyard_intro_shown>>

\* C30 as stated: a marker that is true stays true, each room's long
\* introduction is written at most once, and the welcome is written at most
\* once, in both drivers.
IntroAndWelcomeOnce ==
    /\ [](\A k \in DOMAIN emitted : emitted[k] <= 1)
    /\ [][\A i \in 1..3 : Markers(state)[i] => Markers(state')[i]]_vars

\* the World State of the claims about what a turn changed: hp, room, the
\* flags and the items with their locations and lit state
WorldState(s) ==
    <<s.hp, s.current_room, s.flags_cell, s.flags_coal, s.flags_hall, s.flags_courtyard, s.items>>

\* the engine's context at the end of the turn recorded in last
LastContext ==
    Blocks(sync_flags_with_items(last.pre), last.llm, last.text)

\* C31: whenever a turn changed the World State (hp, room, a flag, or an
\* item's location or lit state), the narration the turn returns does not
\* carry the closing sentence "Nothing special happened.".
ChangedTurnNotCalledNothing ==
    (last.valid /\ WorldState(state) # WorldState(sync_flags_with_items(last.pre)))
    => ~nothing_line_enforced(LastContext, last.pre.hp, last.text)

\* C32: drops and pickups are applied before the transition gate is
\* evaluated: a hall turn whose proposal carries pickup_keys, with the keys
\* lying in the hall and the hands free, and whose text expresses unlocking
\* the courtyard door, unlocks the door and ends in the courtyard.
PickupThenUnlockSameTurn ==
    (/\ last.valid
     /\ last.pre.current_room = "hall_01"
     /\ last.pre.items.keys.location = "hall_01"
     /\ ~slot_occupied(sync_flags_with_items(last.pre))
     /\ "pickup_keys" \in last.llm.events
     /\ infer_move_event("hall_01", last.text) = "unlock_courtyard_door")
    => (/\ state.current_room = "courtyard_01"
        /\ state.flags_hall.courtyard_door_unlocked)

\* C33: after every turn that moves the player from the hall to the coal
\* cellar, the torch is in the player's hands and lit, whatever drop or
\* extinguish events the same turn contained.
ArrivesInCoalWithLight ==
    (/\ last.valid
     /\ last.pre.current_room = "hall_01"
     /\ state.current_room = "coal_01")
    => (state.items.torch.location = "player" /\ state.items.torch.lit)

\* C34: victory is granted only to a player who is still alive: no turn
\* returns game_won with hp <= 0 once the turn's HP is applied, so the web
\* result never has game_won and dead both true.
VictoryOnlyAlive ==
    last.valid => ~(last.result.game_won /\ state.hp <= 0)

\* a cell turn, started with found_loose_stone and stone_moved both false,
\* whose text mentions the straw and expresses lifting the stone
StrawAndStoneTurn ==
    /\ last.valid
    /\ last.pre.current_room = "cell_01"
    /\ ~last.pre.flags_cell.found_loose_stone
    /\ ~last.pre.flags_cell.stone_moved
    /\ Has(last.text, "STRAW_RE")
    /\ Has(last.text, "STONE_ACT_RE")

\* C35: in the cell with found_loose_stone and stone_moved both false, one
\* turn whose text mentions the straw and expresses lifting the stone sets
\* both flags in that turn: found_loose_stone is committed before the
\* prerequisite of stone_moved is checked.
StrawAndStoneInOneTurn ==
    StrawAndStoneTurn =>
        (state.flags_cell.found_loose_stone /\ state.flags_cell.stone_moved)

\* C35 happens: such a turn with an empty proposal has set both flags and
\* left the player in the cell
StrawAndStoneTurnTaken ==
    /\ StrawAndStoneTurn
    /\ last.llm.events = {} /\ last.llm.flags_set = {}
    /\ state.flags_cell.stone_moved
    /\ state.current_room = "cell_01"

\* the player is below the hall and the torch lies in the hall
TorchOutOfReach(s) ==
    s.current_room \in {"cell_01", "coal_01"} /\ s.items.torch.location = "hall_01"

\* C36: no dead end is reachable; in particular no sequence of turns leaves
\* a living player in the cell or the coal cellar with the torch out of
\* reach in the hall.
NoDeadEnd ==
    ~(state.hp > 0 /\ TorchOutOfReach(state))

\* such a state is a dead end: no turn leaves it, whatever the text and the
\* proposal
OutOfReachForever ==
    [][TorchOutOfReach(state) => TorchOutOfReach(state')]_vars

\* and no turn taken in it is a victory
OutOfReachNeverWins ==
    (last.valid /\ TorchOutOfReach(last.pre)) => ~last.result.game_won

\* the HP deltas of the engine's rules
RuleDeltas == {0, -10, -20, -30, -40, -50, -60}

\* the hp_delta a turn's twin carries: a damaging one for a proposal without
\* HP change, none for the others
TwinDelta(d) == IF d = 0 THEN -MaxHpDelta ELSE 0

\* C37: the proposal's hp_delta never influences the new World State: the
\* turn replayed from the same state with the same text, noise, events and
\* flags and another hp_delta ends in the same state with the same applied
\* delta, and the applied delta is one of the engine's rule values.
HpDeltaWithoutInfluence ==
    last.valid =>
        /\ last.result.applied_hp_delta \in RuleDeltas
        /\ LET twin == validate_and_apply(sync_flags_with_items(last.pre),
                                          [last.llm EXCEPT !.hp_delta = TwinDelta(@)], last.text)
           IN  /\ state = IF twin.result.room_transition # None
                          THEN append_room_entry_text(twin.state) ELSE twin.state
               /\ twin.result.applied_hp_delta = last.result.applied_hp_delta

\* C37 happens: a proposal asked for one HP change and the engine applied
\* another, its own
ProposedDeltaOverridden ==
    /\ last.valid
    /\ last.llm.hp_delta = -MaxHpDelta
    /\ last.result.applied_hp_delta = -20
    /\ state.hp = last.pre.hp - 20

\* C38: hp never increases: after every turn hp is at most what it was
\* before, so once hp is 0 it stays 0.
HpNeverIncreases ==
    last.valid => state.hp <= last.pre.hp

\* C38 happens: a proposal asked for a healing hp_delta and a turn was taken
\* at hp 0, which stayed 0
HealingRefused ==
    /\ last.valid
    /\ last.llm.hp_delta = MaxHpDelta
    /\ last.pre.hp = 0
    /\ state.hp = 0

\* the number of guards a text asks to shoot (lines 1368-1377)
Requested(t) ==
    IF Has(t, "ALL_THREE_RE") THEN 3 ELSE IF Has(t, "TWO_RE") THEN 2 ELSE 1

\* C39: the guard bookkeeping is consistent in every reachable state:
\* guards_remaining is between 0 and 3, guards_present is true exactly when
\* guards_remaining > 0, and guards_present implies gate_lowered; a turn that
\* lowers the count was taken with the crossbow held and lowers it by
\* min(requested, remaining).
GuardBookkeeping ==
    LET fc == state.flags_courtyard
        before == last.pre.flags_courtyard.guards_remaining
    IN  /\ fc.guards_remaining \in 0..3
        /\ fc.guards_present <=> fc.guards_remaining > 0
        /\ fc.guards_present => fc.gate_lowered
        /\ (last.valid /\ fc.guards_remaining < before) =>
               /\ last.pre.items.crossbow.location = "player"
               /\ before - fc.guards_remaining = Min(Requested(last.text), before)

\* C39 happens: two of three guards were asked for and shot, one remains
TwoGuardsShot ==
    /\ last.valid
    /\ last.pre.flags_courtyard.guards_remaining = 3
    /\ Requested(last.text) = 2
    /\ state.flags_courtyard.guards_remaining = 1
    /\ state.flags_courtyard.guards_present

\* the item a pickup or drop event is about
ItemOf ==
    [pickup_torch |-> "torch", pickup_stick |-> "torch", pickup_keys |-> "keys",
     pickup_crossbow |-> "crossbow", drop_torch |-> "torch", drop_keys |-> "keys",
     drop_crossbow |-> "crossbow"]

\* the room a traversal event leads to
RoomOf ==
    [enter_coal_cellar |-> "coal_01", return_to_cell |-> "cell_01", open_hall_door |-> "hall_01",
     return_to_coal |-> "coal_01", unlock_courtyard_door |-> "courtyard_01"]

\* the effect of event e took place in the turn from state s to state s2
\* with result r
TookPlace(e, s, s2, r) ==
    CASE e \in DOMAIN RoomOf ->
             s.current_room # RoomOf[e] /\ s2.current_room = RoomOf[e]
      [] e \in {"pickup_torch", "pickup_stick", "pickup_keys", "pickup_crossbow"} ->
             s.items[ItemOf[e]].location # "player" /\ s2.items[ItemOf[e]].location = "player"
      [] e \in {"drop_torch", "drop_keys", "drop_crossbow"} ->
             s.items[ItemOf[e]].location = "player" /\ s2.items[ItemOf[e]].location # "player"
      [] e = "stone_lifted" ->
             ~s.flags_cell.stone_moved /\ s2.flags_cell.stone_moved
      [] e \in {"cross_gate_bridge", "swim_across"} -> r.game_won
      [] OTHER -> TRUE

\* C40: the final event list reports only what the engine applied: a
\* traversal, pickup, drop, stone_lifted or victory event is among the
\* returned events only if its effect took place in this turn.
EventsReportWhatHappened ==
    last.valid =>
        \A e \in last.result.events : TookPlace(e, last.pre, state, last.result)
====
